---- MODULE Spec2Model ----
(***************************************************************************)
(* The progressive sharded data loader of the token-embeddings KNN         *)
(* explorer: the React hook useModelData (src/src/hooks/useModelData.ts).  *)
(*                                                                         *)
(* One commit of the hook (a render followed by the flush of its effects)  *)
(* is one step.  State updates made by effects and by asynchronous         *)
(* callbacks are visible at once in the state variables but reach the      *)
(* effects' dependency lists and closures only with the next commit, so    *)
(* network completions, timers and idle callbacks interleave between a     *)
(* state update and the re-render it schedules.                            *)
(***************************************************************************)
EXTENDS Integers, Sequences, FiniteSets, TLC

\* ------------------------------------------------------------------ bounds
\* Number of Phase 1 effect runs (mount included) a behaviour may hold.
MaxGen == 2
\* Number of on-demand shard fetches a behaviour may issue.
MaxFetch == 2
\* Shard size of the served datasets (16384 in production data).
ShardSize == 2
\* Vocabulary sizes of the served datasets.
VocabQwen == 4
VocabGemma == 2

\* ------------------------------------------------------------ option values
None == << >>
Some(x) == << x >>
IsSome(o) == o # << >>
Get(o) == o[1]

\* A JavaScript Map: a function whose domain is the set of keys present.
EmptyMap == << >>
MapHas(map, k) == k \in DOMAIN map
MapSet(map, k, v) == [x \in (DOMAIN map) \cup {k} |-> IF x = k THEN v ELSE map[x]]

\* --------------------------------------------------------------- registry
MODEL_PREFIXES ==
  ("qwen3-30b-a3b" :> [input |-> "/data/qwen3-30b-a3b-input",
                       output |-> "/data/qwen3-30b-a3b-output"]) @@
  ("llama-3.1-8b" :> [input |-> "/data/llama-3.1-8b-input",
                      output |-> "/data/llama-3.1-8b-output"]) @@
  ("gemma-3-4b" :> [input |-> "/data/gemma-3-4b-input"])

\* The values the caller passes for the three arguments of the hook.
SelectorInputs ==
  { << "qwen3-30b-a3b", "input" >>, << "gemma-3-4b", "input" >>,
    << "gemma-3-4b", "output" >>, << "gpt-2", "input" >> }
TokenInputs == {None, Some(-1), Some(1), Some(2), Some(3)}

\* files[embeddingType] of a registry entry, None when the key is missing.
PrefixOf(m, e) ==
  IF m \notin DOMAIN MODEL_PREFIXES THEN None
  ELSE IF e \notin DOMAIN MODEL_PREFIXES[m] THEN None
  ELSE Some(MODEL_PREFIXES[m][e])

\* ------------------------------------------------------- served artifacts
VocabOf(prefix) ==
  IF prefix = "/data/gemma-3-4b-input" THEN VocabGemma ELSE VocabQwen

\* P-manifest.json as the build job writes it.
ManifestData(prefix) ==
  [vocabSize |-> VocabOf(prefix),
   shardSize |-> ShardSize,
   numShards |-> (VocabOf(prefix) + ShardSize - 1) \div ShardSize]

\* Token strings are sequences of characters.  Within the first VocabQwen
\* entries two strings fold to the same key ("cat", "CAT"), one holds the
\* query "cat" in its middle, and one holds its own identifier (2).
TokenPool ==
  << <<"c","a","t">>, <<"C","a","t","s">>, <<"c","o","n","C","A","T","2">>,
     <<"C","A","T">>, <<"1">> >>

\* P-tokens.json: index = token id (position i+1 holds token i).
TokensData(prefix) ==
  [i \in 1..VocabOf(prefix) |-> TokenPool[((i - 1) % Len(TokenPool)) + 1]]

\* P-knn-i.json: the shard is identified by the artifact it was read from.
ShardData(prefix, idx) == [prefix |-> prefix, index |-> idx]

\* ------------------------------------------------------------ search index
LowerChar(c) ==
  CASE c = "C" -> "c" [] c = "A" -> "a" [] c = "T" -> "t" [] OTHER -> c

toLowerCase(s) == [i \in 1..Len(s) |-> LowerChar(s[i])]

RECURSIVE IndexFind(_, _, _)
\* Position of key in the insertion-ordered map idx, 0 when absent.
IndexFind(idx, key, from) ==
  IF from > Len(idx) THEN 0
  ELSE IF idx[from].key = key THEN from
  ELSE IndexFind(idx, key, from + 1)

RECURSIVE BuildIndexFrom_Prepend(_, _, _)
\* Variant of the loop that puts a repeated key's id in front of its bucket
\* (ids.unshift(id) in place of ids.push(id)).
BuildIndexFrom_Prepend(tokens, id, idx) ==
  IF id >= Len(tokens) THEN idx
  ELSE LET key == toLowerCase(tokens[id + 1])
           at == IndexFind(idx, key, 1)
       IN  IF at # 0
           THEN BuildIndexFrom_Prepend(tokens, id + 1,
                  [idx EXCEPT ![at].ids = << id >> \o @])
           ELSE BuildIndexFrom_Prepend(tokens, id + 1,
                  Append(idx, [key |-> key, ids |-> << id >>]))

RECURSIVE BuildIndexFrom(_, _, _)
\* The loop of lines 114-122: id runs over 0..tokens.length-1.
BuildIndexFrom(tokens, id, idx) ==
  IF id >= Len(tokens) THEN idx
  ELSE LET key == toLowerCase(tokens[id + 1])
           at == IndexFind(idx, key, 1)
       IN  IF at # 0
           THEN BuildIndexFrom(tokens, id + 1,
                  [idx EXCEPT ![at].ids = Append(@, id)])
           ELSE BuildIndexFrom(tokens, id + 1,
                  Append(idx, [key |-> key, ids |-> << id >>]))

BuildIndex(tokens) == BuildIndexFrom(tokens, 0, << >>)

\* ------------------------------------------------------------------- state
VARIABLES
  mounted,          \* the first commit has happened
  hasIdle,          \* "requestIdleCallback" in window
  modelId,          \* arguments of the hook at the last commit
  embeddingType,
  selectedToken,
  depManifest,      \* manifest and tokenStrings as the last commit saw them:
  depTokenStrings,  \* the effects' dependencies and closure values
  dirty,            \* a state update since the last commit awaits its render
  loading,          \* useState values, latest update applied
  error,
  tokenStrings,
  manifest,
  neighborsLoading,
  shardVersion,
  searchIndex,      \* searchIndex.current
  caches,           \* every Map ever held by shardCache
  curCache,         \* which of them shardCache.current is
  prefixRef,        \* prefixRef.current
  loads,            \* Phase 1 async loads, in order of creation
  p1Live,           \* the load whose cleanup is registered (0: none)
  fetches,          \* Phase 2 on-demand fetches
  p2Live,
  prefetchers,      \* Phase 3 closures
  p3Live,
  call              \* the call of search or getToken that is running

vars ==
  << mounted, hasIdle, modelId, embeddingType, selectedToken, depManifest,
     depTokenStrings, dirty, loading, error, tokenStrings, manifest,
     neighborsLoading, shardVersion, searchIndex, caches, curCache, prefixRef, loads, p1Live, fetches, p2Live,
     prefetchers, p3Live, call >>

\* No call of search or getToken is running.
NoCall == [op |-> "none", arg |-> << >>, limit |-> 0, result |-> << >>]

\* The useState values as one record.
StateNow ==
  [loading |-> loading, error |-> error, tokenStrings |-> tokenStrings,
   manifest |-> manifest, neighborsLoading |-> neighborsLoading,
   shardVersion |-> shardVersion]

\* The hook's mutable world, threaded through the effects of one commit.
World ==
  [loading |-> loading, error |-> error, tokenStrings |-> tokenStrings,
   manifest |-> manifest, neighborsLoading |-> neighborsLoading,
   shardVersion |-> shardVersion, searchIndex |-> searchIndex,
   caches |-> caches, curCache |-> curCache, prefixRef |-> prefixRef,
   loads |-> loads, p1Live |-> p1Live, fetches |-> fetches, p2Live |-> p2Live,
   prefetchers |-> prefetchers, p3Live |-> p3Live]

Init ==
  /\ mounted = FALSE
  /\ hasIdle \in BOOLEAN
  /\ \E s \in SelectorInputs : modelId = s[1] /\ embeddingType = s[2]
  /\ selectedToken \in TokenInputs
  /\ loading = TRUE
  /\ error = None
  /\ tokenStrings = None
  /\ manifest = None
  /\ neighborsLoading = FALSE
  /\ shardVersion = 0
  /\ depManifest = None
  /\ depTokenStrings = None
  /\ dirty = FALSE
  /\ searchIndex = << >>
  /\ caches = << EmptyMap >>
  /\ curCache = 1
  /\ prefixRef = None
  /\ loads = << >>
  /\ p1Live = 0
  /\ fetches = << >>
  /\ p2Live = 0
  /\ prefetchers = << >>
  /\ p3Live = 0
  /\ call = NoCall


\* ------------------------------------------------- effects of one commit
\* The cleanup functions of the effects whose dependencies changed; React
\* runs all of them before any effect body of the commit.
\* A closure that has run to its end is garbage: its record keeps only how
\* it ended, and setting its cancelled flag changes nothing.
EndedLoad(l, how) == [l EXCEPT !.prefix = "", !.cancelled = FALSE, !.pc = how]
EndedFetch(how) ==
  [prefix |-> "", shardIndex |-> 0, token |-> 0, session |-> 0,
   cancelled |-> FALSE, pc |-> how]
EndedPrefetch(how) ==
  [prefix |-> "", cache |-> 0, numShards |-> 0, cancelled |-> FALSE,
   pc |-> how, fresh |-> FALSE, queue |-> << >>, idx |-> 0]

Cleanup1(w) ==
  IF w.p1Live = 0 \/ w.loads[w.p1Live].pc \notin {"manifest", "tokens"} THEN w
  ELSE [w EXCEPT !.loads[w.p1Live].cancelled = TRUE]

Cleanup2(w) ==
  IF w.p2Live = 0 \/ w.fetches[w.p2Live].pc # "pending" THEN w
  ELSE [w EXCEPT !.fetches[w.p2Live].cancelled = TRUE]

\* cancelled = true; clearTimeout(timeout): a timer still pending never fires.
Cleanup3(w) ==
  IF w.p3Live = 0 THEN w
  ELSE IF w.prefetchers[w.p3Live].pc = "timer"
  THEN [w EXCEPT !.prefetchers[w.p3Live] = EndedPrefetch("cleared")]
  ELSE IF w.prefetchers[w.p3Live].pc \in {"idle", "fetching"}
  THEN [w EXCEPT !.prefetchers[w.p3Live].cancelled = TRUE]
  ELSE w

\* A Map that is neither shardCache.current nor captured by a prefetch closure
\* that can still read or write it is garbage, and is kept empty.
Collected(cs, cur, pfs) ==
  [i \in 1..Len(cs) |->
     IF i = cur \/ \E p \in 1..Len(pfs) :
                     /\ pfs[p].cache = i
                     /\ ~pfs[p].cancelled
                     /\ pfs[p].pc \in {"timer", "idle", "fetching"}
     THEN cs[i] ELSE EmptyMap]

\* The reset without setLoading(true) of line 75.
Phase1Reset_KeepsLoading(w) ==
  [w EXCEPT !.error = None,
            !.tokenStrings = None,
            !.manifest = None,
            !.neighborsLoading = FALSE,
            !.searchIndex = << >>,
            !.caches = Append(w.caches, EmptyMap),
            !.curCache = Len(w.caches) + 1,
            !.shardVersion = 0]

\* Lines 74-82: the reset every run of the Phase 1 effect starts with.
Phase1Reset(w) ==
  [w EXCEPT !.loading = TRUE,
            !.error = None,
            !.tokenStrings = None,
            !.manifest = None,
            !.neighborsLoading = FALSE,
            !.searchIndex = << >>,
            !.caches = Append(w.caches, EmptyMap),
            !.curCache = Len(w.caches) + 1,
            !.shardVersion = 0]

\* Lines 84-135 up to the first await: registry lookup, then the load starts.
Phase1Effect(w, m, e) ==
  LET r == Phase1Reset(w)
  IN  IF m \notin DOMAIN MODEL_PREFIXES
      THEN [r EXCEPT !.error = Some([kind |-> "unknown-model", prefix |-> "",
                                     index |-> 0, token |-> 0]),
                     !.loading = FALSE,
                     !.p1Live = 0]
      ELSE IF PrefixOf(m, e) = None
      THEN [r EXCEPT !.error = Some([kind |-> "no-embedding", prefix |-> "",
                                     index |-> 0, token |-> 0]),
                     !.loading = FALSE,
                     !.p1Live = 0]
      ELSE [r EXCEPT !.prefixRef = PrefixOf(m, e),
                     !.loads = Append(r.loads,
                                 [prefix |-> Get(PrefixOf(m, e)),
                                  session |-> r.curCache,
                                  cancelled |-> FALSE,
                                  pc |-> "manifest"]),
                     !.p1Live = Len(r.loads) + 1]

\* Rounding the quotient up instead of down.
ShardIndexOf_RoundedUp(tok, shardSize) == (tok + shardSize - 1) \div shardSize

\* Math.floor(selectedToken / manifest.shardSize) for a token >= 0.
ShardIndexOf(tok, shardSize) == tok \div shardSize

\* Phase 2 guards without the range test of line 145.
Phase2Fetches_NoRangeTest(w, rm, rt, t) ==
  /\ IsSome(rm) /\ IsSome(rt) /\ IsSome(t)
  /\ ~MapHas(w.caches[w.curCache], ShardIndexOf(Get(t), Get(rm).shardSize))
  /\ IsSome(w.prefixRef)

\* Phase 2 guards without the cache lookup of line 148.
Phase2Fetches_NoCacheTest(w, rm, rt, t) ==
  /\ IsSome(rm) /\ IsSome(rt) /\ IsSome(t)
  /\ ~(Get(t) < 0 \/ Get(t) >= Get(rm).vocabSize)
  /\ IsSome(w.prefixRef)

\* Lines 144-151: whether the Phase 2 effect reaches the fetch. rm and rt are
\* manifest and tokenStrings as the render saw them.
Phase2Fetches(w, rm, rt, t) ==
  /\ IsSome(rm) /\ IsSome(rt) /\ IsSome(t)
  /\ ~(Get(t) < 0 \/ Get(t) >= Get(rm).vocabSize)
  /\ ~MapHas(w.caches[w.curCache], ShardIndexOf(Get(t), Get(rm).shardSize))
  /\ IsSome(w.prefixRef)

\* Lines 143-176 up to the await.
Phase2Effect(w, rm, rt, t) ==
  IF ~Phase2Fetches(w, rm, rt, t)
  THEN [w EXCEPT !.p2Live = 0]
  ELSE [w EXCEPT !.neighborsLoading = TRUE,
                 !.fetches = Append(w.fetches,
                    [prefix |-> Get(w.prefixRef),
                     shardIndex |-> ShardIndexOf(Get(t), Get(rm).shardSize),
                     token |-> Get(t),
                     session |-> w.curCache,
                     cancelled |-> FALSE,
                     pc |-> "pending"]),
                 !.p2Live = Len(w.fetches) + 1]

\* The useState values of a world.
StateOf(w) ==
  [loading |-> w.loading, error |-> w.error, tokenStrings |-> w.tokenStrings,
   manifest |-> w.manifest, neighborsLoading |-> w.neighborsLoading,
   shardVersion |-> w.shardVersion]

\* Lines 179-242 up to setTimeout: the closure captures the Map, the prefix
\* and the rendered manifest.
Phase3Effect(w, rm, rt) ==
  IF ~(IsSome(rm) /\ IsSome(rt)) \/ ~IsSome(w.prefixRef)
  THEN [w EXCEPT !.p3Live = 0]
  ELSE [w EXCEPT !.prefetchers = Append(w.prefetchers,
                    [prefix |-> Get(w.prefixRef),
                     cache |-> w.curCache,
                     numShards |-> Get(rm).numShards,
                     cancelled |-> FALSE,
                     pc |-> "timer",
                     fresh |-> StateOf(w) # StateNow,
                     queue |-> << >>,
                     idx |-> 0]),
                 !.p3Live = Len(w.prefetchers) + 1]

\* setTimeout(..., 500): a timer armed by a commit whose effects also updated
\* state cannot fire before the re-render those updates scheduled, which is
\* queued first and is due at once.  fresh marks such a timer until the next
\* commit.
Aged(w) ==
  [w EXCEPT !.prefetchers =
     [p \in 1..Len(w.prefetchers) |-> [w.prefetchers[p] EXCEPT !.fresh = FALSE]]]

\* Whether this step leaves a state update waiting for a re-render.
Scheduled == dirty' = (dirty \/ StateNow' # StateNow)

\* The world after the effects of a commit with arguments (m, e, t): the
\* cleanups of the effects whose dependencies changed, then their bodies.
Flush(m, e, t) ==
  LET rm == manifest
      rt == tokenStrings
      d1 == ~mounted \/ m # modelId \/ e # embeddingType
      d23 == ~mounted \/ rm # depManifest \/ rt # depTokenStrings
      d2 == d23 \/ t # selectedToken
      d3 == d23
      c1 == IF d1 THEN Cleanup1(World) ELSE World
      c2 == IF d2 THEN Cleanup2(c1) ELSE c1
      c3 == IF d3 THEN Cleanup3(c2) ELSE c2
      w1 == IF d1 THEN Phase1Effect(c3, m, e) ELSE c3
      w2 == IF d2 THEN Phase2Effect(w1, rm, rt, t) ELSE w1
  IN  IF d3 THEN Phase3Effect(Aged(w2), rm, rt) ELSE Aged(w2)

\* The on-demand fetch a load still running will make the re-render after
\* it issue.  The bounds cut off argument changes only: a commit is explored
\* when the fetches it leaves issued or owed fit MaxFetch, so the re-render
\* a state update scheduled is never cut off.
Owed(w) == IF w.p1Live # 0 THEN 1 ELSE 0

\* One commit with arguments (m, e, t): render, then the effects.
Commit(m, e, t) ==
  \E w \in {Flush(m, e, t)} :
      /\ Len(w.caches) <= MaxGen + 1
      /\ Len(w.fetches) + Owed(w) <= MaxFetch
      /\ mounted' = TRUE
      /\ modelId' = m
      /\ embeddingType' = e
      /\ selectedToken' = t
      /\ depManifest' = manifest
      /\ depTokenStrings' = tokenStrings
      /\ dirty' = (StateOf(w) # StateNow)
      /\ loading' = w.loading
      /\ error' = w.error
      /\ tokenStrings' = w.tokenStrings
      /\ manifest' = w.manifest
      /\ neighborsLoading' = w.neighborsLoading
      /\ shardVersion' = w.shardVersion
      /\ searchIndex' = w.searchIndex
      /\ caches' = Collected(w.caches, w.curCache, w.prefetchers)
      /\ curCache' = w.curCache
      /\ prefixRef' = w.prefixRef
      /\ loads' = w.loads
      /\ p1Live' = w.p1Live
      /\ fetches' = w.fetches
      /\ p2Live' = w.p2Live
      /\ prefetchers' = w.prefetchers
      /\ p3Live' = w.p3Live
      /\ UNCHANGED hasIdle
      /\ call = NoCall /\ UNCHANGED call

\* The first commit: every effect runs, nothing is cleaned up.
Mount ==
  /\ ~mounted
  /\ Commit(modelId, embeddingType, selectedToken)

\* The caller changes an argument (App.tsx: navigate, handleModelChange,
\* the embedding toggle, popstate).
Update(m, e, t) ==
  /\ mounted
  /\ << m, e, t >> # << modelId, embeddingType, selectedToken >>
  /\ Commit(m, e, t)

\* The re-render a state update scheduled.
Rerender ==
  /\ mounted
  /\ dirty
  /\ Commit(modelId, embeddingType, selectedToken)


\* What no asynchronous callback touches: the arguments and what the last
\* commit recorded.  Callbacks, like commits, run between calls of search
\* and getToken, never during one (a call runs to completion).
CommitFrame ==
  /\ UNCHANGED << mounted, hasIdle, modelId, embeddingType, selectedToken,
                  depManifest, depTokenStrings, curCache, prefixRef >>
  /\ call = NoCall /\ UNCHANGED call

\* The cleanup registered for a closure that has ended is inert.
Unless(live, ended) == IF live = ended THEN 0 ELSE live

\* ------------------------------------------------ Phase 1 load, lines 98-135
\* The manifest returns and the tokens fetch is issued without the test of
\* line 104.
ManifestOk_Unguarded(l) ==
  /\ l \in 1..Len(loads)
  /\ loads[l].pc = "manifest"
  /\ loads' = [loads EXCEPT ![l].pc = "tokens"]
  /\ UNCHANGED << loading, error, tokenStrings, manifest, neighborsLoading,
                  shardVersion, searchIndex, caches, fetches, p2Live,
                  prefetchers, p3Live, dirty, p1Live >>
  /\ CommitFrame

\* fetchAndDecompress of the manifest returns: line 104, then the tokens
\* fetch is issued.
ManifestOk(l) ==
  /\ l \in 1..Len(loads)
  /\ loads[l].pc = "manifest"
  /\ IF loads[l].cancelled
     THEN /\ loads' = [loads EXCEPT ![l] = EndedLoad(@, "stale")]
          /\ p1Live' = Unless(p1Live, l)
     ELSE /\ loads' = [loads EXCEPT ![l].pc = "tokens"]
          /\ UNCHANGED p1Live
  /\ UNCHANGED << loading, error, tokenStrings, manifest, neighborsLoading,
                  shardVersion, searchIndex, caches, fetches, p2Live,
                  prefetchers, p3Live, dirty >>
  /\ CommitFrame

\* A catch that reports the failure but has no finally: loading stays set.
LoadCatch_NoFinally(l) ==
  /\ IF loads[l].cancelled
     THEN /\ loads' = [loads EXCEPT ![l] = EndedLoad(@, "stale")]
          /\ UNCHANGED error
     ELSE /\ loads' = [loads EXCEPT ![l] = EndedLoad(@, "failed")]
          /\ error' = Some([kind |-> loads[l].pc, prefix |-> loads[l].prefix,
                            index |-> 0, token |-> 0])
  /\ p1Live' = Unless(p1Live, l)
  /\ UNCHANGED << loading, tokenStrings, manifest, neighborsLoading,
                  shardVersion, searchIndex, caches, fetches, p2Live,
                  prefetchers, p3Live >>
  /\ CommitFrame
  /\ Scheduled

\* catch and finally of lines 128-134, for either fetch of the load. The
\* message names the artifact whose fetch threw ("manifest" or "tokens").
LoadCatch(l) ==
  /\ IF loads[l].cancelled
     THEN /\ loads' = [loads EXCEPT ![l] = EndedLoad(@, "stale")]
          /\ UNCHANGED << error, loading >>
     ELSE /\ loads' = [loads EXCEPT ![l] = EndedLoad(@, "failed")]
          /\ error' = Some([kind |-> loads[l].pc, prefix |-> loads[l].prefix,
                            index |-> 0, token |-> 0])
          /\ loading' = FALSE
  /\ p1Live' = Unless(p1Live, l)
  /\ UNCHANGED << tokenStrings, manifest, neighborsLoading, shardVersion,
                  searchIndex, caches, fetches, p2Live, prefetchers, p3Live >>
  /\ CommitFrame
  /\ Scheduled

\* The manifest fetch throws: non-OK response or undecodable payload.
ManifestFail(l) ==
  /\ l \in 1..Len(loads)
  /\ loads[l].pc = "manifest"
  /\ LoadCatch(l)

\* The tokens fetch throws.
TokensFail(l) ==
  /\ l \in 1..Len(loads)
  /\ loads[l].pc = "tokens"
  /\ LoadCatch(l)

\* A load that publishes without looking at its cancelled flag.
TokensOk_Unguarded(l) ==
  /\ l \in 1..Len(loads)
  /\ loads[l].pc = "tokens"
  /\ loads' = [loads EXCEPT ![l] = EndedLoad(@, "done")]
  /\ searchIndex' = BuildIndex(TokensData(loads[l].prefix))
  /\ manifest' = Some([id |-> l] @@ ManifestData(loads[l].prefix))
  /\ tokenStrings' = Some([id |-> l, tokens |-> TokensData(loads[l].prefix)])
  /\ loading' = FALSE
  /\ p1Live' = Unless(p1Live, l)
  /\ UNCHANGED << error, neighborsLoading, shardVersion, caches, fetches,
                  p2Live, prefetchers, p3Live >>
  /\ CommitFrame
  /\ Scheduled

\* Lines 110-127 and 133: the tokens arrive, the index is built, manifest,
\* table and index are published and loading is cleared.
TokensOk(l) ==
  /\ l \in 1..Len(loads)
  /\ loads[l].pc = "tokens"
  /\ IF loads[l].cancelled
     THEN /\ loads' = [loads EXCEPT ![l] = EndedLoad(@, "stale")]
          /\ UNCHANGED << searchIndex, manifest, tokenStrings, loading >>
     ELSE /\ loads' = [loads EXCEPT ![l] = EndedLoad(@, "done")]
          /\ searchIndex' = BuildIndex(TokensData(loads[l].prefix))
          /\ manifest' = Some([id |-> l] @@ ManifestData(loads[l].prefix))
          /\ tokenStrings' = Some([id |-> l,
                                   tokens |-> TokensData(loads[l].prefix)])
          /\ loading' = FALSE
  /\ p1Live' = Unless(p1Live, l)
  /\ UNCHANGED << error, neighborsLoading, shardVersion, caches, fetches,
                  p2Live, prefetchers, p3Live >>
  /\ CommitFrame
  /\ Scheduled

\* --------------------------------------- Phase 2 on-demand fetch, 156-171
\* The shard arrives: line 161, then the write into shardCache.current.
\* A shard write that also drops the search index.
ShardOk_DropsIndex(f) ==
  /\ f \in 1..Len(fetches)
  /\ fetches[f].pc = "pending"
  /\ IF fetches[f].cancelled
     THEN /\ fetches' = [fetches EXCEPT ![f] = EndedFetch("stale")]
          /\ UNCHANGED << caches, shardVersion, neighborsLoading, searchIndex >>
     ELSE /\ fetches' = [fetches EXCEPT ![f] = EndedFetch("ok")]
          /\ caches' = [caches EXCEPT ![curCache] =
                          MapSet(@, fetches[f].shardIndex,
                                 ShardData(fetches[f].prefix,
                                           fetches[f].shardIndex))]
          /\ shardVersion' = shardVersion + 1
          /\ neighborsLoading' = FALSE
          /\ searchIndex' = << >>
  /\ p2Live' = Unless(p2Live, f)
  /\ UNCHANGED << loading, error, tokenStrings, manifest, loads,
                  p1Live, prefetchers, p3Live >>
  /\ CommitFrame
  /\ Scheduled

ShardOk(f) ==
  /\ f \in 1..Len(fetches)
  /\ fetches[f].pc = "pending"
  /\ IF fetches[f].cancelled
     THEN /\ fetches' = [fetches EXCEPT ![f] = EndedFetch("stale")]
          /\ UNCHANGED << caches, shardVersion, neighborsLoading >>
     ELSE /\ fetches' = [fetches EXCEPT ![f] = EndedFetch("ok")]
          /\ caches' = [caches EXCEPT ![curCache] =
                          MapSet(@, fetches[f].shardIndex,
                                 ShardData(fetches[f].prefix,
                                           fetches[f].shardIndex))]
          /\ shardVersion' = shardVersion + 1
          /\ neighborsLoading' = FALSE
  /\ p2Live' = Unless(p2Live, f)
  /\ UNCHANGED << loading, error, tokenStrings, manifest, searchIndex, loads,
                  p1Live, prefetchers, p3Live >>
  /\ CommitFrame
  /\ Scheduled

\* A failure that is remembered: the shard index is cached with no rows.
ShardFail_CachesFailure(f) ==
  /\ f \in 1..Len(fetches)
  /\ fetches[f].pc = "pending"
  /\ IF fetches[f].cancelled
     THEN /\ fetches' = [fetches EXCEPT ![f] = EndedFetch("stale")]
          /\ UNCHANGED << error, neighborsLoading, caches >>
     ELSE /\ fetches' = [fetches EXCEPT ![f] = EndedFetch("failed")]
          /\ error' = Some([kind |-> "shard", prefix |-> fetches[f].prefix,
                            index |-> fetches[f].shardIndex,
                            token |-> fetches[f].token])
          /\ neighborsLoading' = FALSE
          /\ caches' = [caches EXCEPT ![curCache] =
                          MapSet(@, fetches[f].shardIndex, << >>)]
  /\ p2Live' = Unless(p2Live, f)
  /\ UNCHANGED << loading, tokenStrings, manifest, shardVersion, searchIndex,
                  loads, p1Live, prefetchers, p3Live >>
  /\ CommitFrame
  /\ Scheduled

\* A catch and finally that do not test cancelled.
ShardFail_Unguarded(f) ==
  /\ f \in 1..Len(fetches)
  /\ fetches[f].pc = "pending"
  /\ fetches' = [fetches EXCEPT ![f] =
                   EndedFetch(IF fetches[f].cancelled THEN "stale"
                              ELSE "failed")]
  /\ error' = Some([kind |-> "shard", prefix |-> fetches[f].prefix,
                    index |-> fetches[f].shardIndex,
                    token |-> fetches[f].token])
  /\ neighborsLoading' = FALSE
  /\ p2Live' = Unless(p2Live, f)
  /\ UNCHANGED << loading, tokenStrings, manifest, shardVersion, searchIndex,
                  caches, loads, p1Live, prefetchers, p3Live >>
  /\ CommitFrame
  /\ Scheduled

\* The shard fetch throws: lines 164-170.
ShardFail(f) ==
  /\ f \in 1..Len(fetches)
  /\ fetches[f].pc = "pending"
  /\ IF fetches[f].cancelled
     THEN /\ fetches' = [fetches EXCEPT ![f] = EndedFetch("stale")]
          /\ UNCHANGED << error, neighborsLoading >>
     ELSE /\ fetches' = [fetches EXCEPT ![f] = EndedFetch("failed")]
          /\ error' = Some([kind |-> "shard", prefix |-> fetches[f].prefix,
                            index |-> fetches[f].shardIndex,
                            token |-> fetches[f].token])
          /\ neighborsLoading' = FALSE
  /\ p2Live' = Unless(p2Live, f)
  /\ UNCHANGED << loading, tokenStrings, manifest, shardVersion, searchIndex,
                  caches, loads, p1Live, prefetchers, p3Live >>
  /\ CommitFrame
  /\ Scheduled

\* ------------------------------------------ Phase 3 prefetch, lines 189-236
RECURSIVE MissingFrom(_, _, _)
\* Array.from({length: numShards}, (_, i) => i).filter(i => !cache.has(i))
MissingFrom(i, numShards, cache) ==
  IF i >= numShards THEN << >>
  ELSE IF MapHas(cache, i) THEN MissingFrom(i + 1, numShards, cache)
  ELSE << i >> \o MissingFrom(i + 1, numShards, cache)

\* A prefetcher whose then-callback does not call prefetchNext again: it
\* stops after the first shard it fetched.
prefetchNext_OneShot(pf, cache, idle) ==
  IF pf.cancelled \/ pf.queue = << >> \/ pf.pc = "fetching"
  THEN EndedPrefetch("stopped")
  ELSE [pf EXCEPT !.queue = Tail(pf.queue),
                  !.idx = Head(pf.queue),
                  !.pc = IF idle THEN "idle" ELSE "fetching"]

RECURSIVE prefetchNext_NoRecheck(_, _, _)
\* prefetchNext without the cache.has test of line 201 on the popped index.
prefetchNext_NoRecheck(pf, cache, idle) ==
  IF pf.cancelled \/ pf.queue = << >>
  THEN EndedPrefetch("stopped")
  ELSE [pf EXCEPT !.queue = Tail(pf.queue),
                  !.idx = Head(pf.queue),
                  !.pc = IF idle THEN "idle" ELSE "fetching"]

RECURSIVE prefetchNext(_, _, _)
\* Lines 197-233 up to the scheduling of the fetch; pf is the closure, cache
\* the Map it captured, idle whether requestIdleCallback exists.
prefetchNext(pf, cache, idle) ==
  IF pf.cancelled \/ pf.queue = << >>
  THEN EndedPrefetch("stopped")
  ELSE LET idx == Head(pf.queue)
           popped == [pf EXCEPT !.queue = Tail(pf.queue)]
       IN  IF MapHas(cache, idx)
           THEN prefetchNext(popped, cache, idle)
           ELSE [popped EXCEPT !.idx = idx,
                               !.pc = IF idle THEN "idle" ELSE "fetching"]

\* A step of prefetch closure p that leaves it as record pf and the Maps as cs.
PrefetchStep(p, pf, cs) ==
  /\ prefetchers' = [prefetchers EXCEPT ![p] = pf]
  /\ caches' = Collected(cs, curCache, [prefetchers EXCEPT ![p] = pf])
  /\ p3Live' = IF pf.pc = "stopped" THEN Unless(p3Live, p) ELSE p3Live
  /\ UNCHANGED << loading, error, tokenStrings, manifest, neighborsLoading,
                  searchIndex, loads, p1Live, fetches, p2Live >>
  /\ CommitFrame

\* The 500 ms timer fires: lines 189-196 and 235.
TimerFire(p) ==
  /\ p \in 1..Len(prefetchers)
  /\ prefetchers[p].pc = "timer"
  /\ ~prefetchers[p].fresh
  /\ LET pf == prefetchers[p]
         cache == caches[pf.cache]
         queued == [pf EXCEPT !.queue = MissingFrom(0, pf.numShards, cache)]
     IN  PrefetchStep(p, IF pf.cancelled THEN EndedPrefetch("stopped")
                         ELSE prefetchNext(queued, cache, hasIdle), caches)
  /\ UNCHANGED << shardVersion, dirty >>

\* The idle callback runs: lines 207-209, the fetch is issued.
IdleFire(p) ==
  /\ p \in 1..Len(prefetchers)
  /\ prefetchers[p].pc = "idle"
  /\ PrefetchStep(p, IF prefetchers[p].cancelled THEN EndedPrefetch("stopped")
                     ELSE [prefetchers[p] EXCEPT !.pc = "fetching"], caches)
  /\ UNCHANGED << shardVersion, dirty >>

\* The prefetched shard arrives: lines 210-215 (223-228).
PrefetchOk(p) ==
  /\ p \in 1..Len(prefetchers)
  /\ prefetchers[p].pc = "fetching"
  /\ LET pf == prefetchers[p]
         written == MapSet(caches[pf.cache], pf.idx,
                           ShardData(pf.prefix, pf.idx))
     IN  IF pf.cancelled
         THEN /\ PrefetchStep(p, EndedPrefetch("stopped"), caches)
              /\ UNCHANGED shardVersion
         ELSE /\ PrefetchStep(p, prefetchNext(pf, written, hasIdle),
                              [caches EXCEPT ![pf.cache] = written])
              /\ shardVersion' = shardVersion + 1
  /\ Scheduled

\* A prefetch failure that is reported like an on-demand one and ends the
\* prefetch loop.
PrefetchFail_Surfaced(p) ==
  /\ p \in 1..Len(prefetchers)
  /\ prefetchers[p].pc = "fetching"
  /\ prefetchers' = [prefetchers EXCEPT ![p] = EndedPrefetch("stopped")]
  /\ caches' = Collected(caches, curCache, prefetchers')
  /\ p3Live' = Unless(p3Live, p)
  /\ error' = IF prefetchers[p].cancelled THEN error
              ELSE Some([kind |-> "shard", prefix |-> prefetchers[p].prefix,
                         index |-> prefetchers[p].idx, token |-> 0])
  /\ UNCHANGED << loading, tokenStrings, manifest, neighborsLoading,
                  searchIndex, loads, p1Live, fetches, p2Live, shardVersion >>
  /\ CommitFrame
  /\ Scheduled

\* The prefetch fetch throws: lines 216-219 (229-231).
PrefetchFail(p) ==
  /\ p \in 1..Len(prefetchers)
  /\ prefetchers[p].pc = "fetching"
  /\ PrefetchStep(p, prefetchNext(prefetchers[p],
                                  caches[prefetchers[p].cache], hasIdle),
                  caches)
  /\ UNCHANGED << shardVersion, dirty >>

\* --------------------------------------------------------- specification
Next ==
  \/ Mount
  \/ \E s \in SelectorInputs, t \in TokenInputs : Update(s[1], s[2], t)
  \/ Rerender
  \/ \E l \in 1..MaxGen : ManifestOk(l)
  \/ \E l \in 1..MaxGen : ManifestFail(l)
  \/ \E l \in 1..MaxGen : TokensOk(l)
  \/ \E l \in 1..MaxGen : TokensFail(l)
  \/ \E f \in 1..MaxFetch : ShardOk(f)
  \/ \E f \in 1..MaxFetch : ShardFail(f)
  \/ \E p \in 1..MaxGen : TimerFire(p)
  \/ \E p \in 1..MaxGen : IdleFire(p)
  \/ \E p \in 1..MaxGen : PrefetchOk(p)
  \/ \E p \in 1..MaxGen : PrefetchFail(p)

Spec == Init /\ [][Next]_vars

\* The loader when every shard fetch succeeds.  The host runs every pending
\* callback eventually: a scheduled re-render, a response that has arrived,
\* the timer, the idle callback.  The caller picks among a token in each
\* shard and no token, and among two loadable selectors and one without a
\* prefix.
LiveSelectors ==
  { << "qwen3-30b-a3b", "input" >>, << "gemma-3-4b", "input" >>,
    << "gemma-3-4b", "output" >> }

LiveTokens == {None, Some(1), Some(3)}

LiveInit ==
  /\ Init
  /\ << modelId, embeddingType >> \in LiveSelectors
  /\ selectedToken \in LiveTokens

LiveNext ==
  \/ Mount
  \/ \E s \in LiveSelectors, t \in LiveTokens : Update(s[1], s[2], t)
  \/ Rerender
  \/ \E l \in 1..MaxGen : ManifestOk(l)
  \/ \E l \in 1..MaxGen : ManifestFail(l)
  \/ \E l \in 1..MaxGen : TokensOk(l)
  \/ \E l \in 1..MaxGen : TokensFail(l)
  \/ \E f \in 1..MaxFetch : ShardOk(f)
  \/ \E p \in 1..MaxGen : TimerFire(p)
  \/ \E p \in 1..MaxGen : IdleFire(p)
  \/ \E p \in 1..MaxGen : PrefetchOk(p)

LiveFairness ==
  /\ WF_vars(Mount)
  /\ WF_vars(Rerender)
  /\ \A f \in 1..MaxFetch : WF_vars(ShardOk(f))
  /\ \A p \in 1..MaxGen :
       WF_vars(TimerFire(p)) /\ WF_vars(IdleFire(p)) /\ WF_vars(PrefetchOk(p))

LiveSpec == LiveInit /\ [][LiveNext]_vars /\ LiveFairness

\* ------------------------------------------------- search, lines 244-273
\* /^\d+$/.test(query)
IsDigits(q) ==
  /\ q # << >>
  /\ \A i \in 1..Len(q) :
       q[i] \in {"0", "1", "2", "3", "4", "5", "6", "7", "8", "9"}

DigitValue(c) ==
  CASE c = "0" -> 0 [] c = "1" -> 1 [] c = "2" -> 2 [] c = "3" -> 3
    [] c = "4" -> 4 [] c = "5" -> 5 [] c = "6" -> 6 [] c = "7" -> 7
    [] c = "8" -> 8 [] c = "9" -> 9

RECURSIVE NumberFrom(_, _, _)
\* Number(query) for a string of decimal digits.
NumberFrom(q, i, acc) ==
  IF i > Len(q) THEN acc
  ELSE NumberFrom(q, i + 1, acc * 10 + DigitValue(q[i]))

Number(q) == NumberFrom(q, 1, 0)

\* A match at the start of the string only (String.prototype.startsWith).
includes_PrefixOnly(str, sub) ==
  Len(sub) <= Len(str) /\ SubSeq(str, 1, Len(sub)) = sub

\* String.prototype.includes
includes(str, sub) ==
  \E i \in 0..(Len(str) - Len(sub)) : SubSeq(str, i + 1, i + Len(sub)) = sub

\* arr[i] of a JavaScript array: None stands for undefined.
At(arr, i) == IF i >= 0 /\ i < Len(arr) THEN Some(arr[i + 1]) ELSE None

\* results.some((r) => r.id === tokenId)
HasId(results, tokenId) == \E r \in 1..Len(results) : results[r].id = tokenId

RECURSIVE ScanIds_NoDedupe(_, _, _, _, _)
\* The scan without the test of line 264 for identifiers already included.
ScanIds_NoDedupe(tokenIds, j, limit, tokens, results) ==
  IF j > Len(tokenIds) \/ Len(results) >= limit THEN results
  ELSE ScanIds_NoDedupe(tokenIds, j + 1, limit, tokens,
                        Append(results, [id |-> tokenIds[j],
                                         text |-> At(tokens, tokenIds[j])]))

RECURSIVE ScanIds(_, _, _, _, _)
\* The inner loop of lines 262-267 from position j of the bucket.
ScanIds(tokenIds, j, limit, tokens, results) ==
  IF j > Len(tokenIds) \/ Len(results) >= limit THEN results
  ELSE IF HasId(results, tokenIds[j])
  THEN ScanIds(tokenIds, j + 1, limit, tokens, results)
  ELSE ScanIds(tokenIds, j + 1, limit, tokens,
               Append(results, [id |-> tokenIds[j],
                                text |-> At(tokens, tokenIds[j])]))

RECURSIVE ScanIndex(_, _, _, _, _, _)
\* The loop of lines 259-269 from entry e of searchIndex.current.
ScanIndex(idx, e, lower, limit, tokens, results) ==
  IF e > Len(idx) \/ Len(results) >= limit THEN results
  ELSE IF includes(idx[e].key, lower)
  THEN ScanIndex(idx, e + 1, lower, limit, tokens,
                 ScanIds(idx[e].ids, 1, limit, tokens, results))
  ELSE ScanIndex(idx, e + 1, lower, limit, tokens, results)

\* search without the upper bound test of line 253 on the integer literal.
search_UncheckedLiteral(ts, idx, query, limit) ==
  IF ~IsSome(ts) \/ query = << >> THEN << >>
  ELSE LET tokens == Get(ts).tokens
           numeric == IF IsDigits(query)
                      THEN << [id |-> Number(query),
                               text |-> At(tokens, Number(query))] >>
                      ELSE << >>
       IN  ScanIndex(idx, 1, toLowerCase(query), limit, tokens, numeric)

\* search(query, limit) of a render that saw tokenStrings ts, with
\* searchIndex.current = idx at the time of the call.
search(ts, idx, query, limit) ==
  IF ~IsSome(ts) \/ query = << >> THEN << >>
  ELSE LET tokens == Get(ts).tokens
           numeric == IF IsDigits(query) /\ Number(query) < Len(tokens)
                      THEN << [id |-> Number(query),
                               text |-> At(tokens, Number(query))] >>
                      ELSE << >>
       IN  ScanIndex(idx, 1, toLowerCase(query), limit, tokens, numeric)

\* ----------------------------------------------- getToken, lines 275-287
\* The neighbor lists of a served shard: one row per token of its range, each
\* row a non-empty list of [token_id, similarity] pairs.
ShardRows(shard) ==
  LET first == shard.index * ShardSize
      count == IF VocabOf(shard.prefix) - first < ShardSize
               THEN VocabOf(shard.prefix) - first ELSE ShardSize
  IN  [l \in 1..count |->
         << << (first + l) % VocabOf(shard.prefix), 1 >> >>]

\* getToken indexing the shard by the identifier instead of the local index.
getToken_GlobalIndex(ts, m, cache, id) ==
  IF ~IsSome(ts) \/ id < 0 \/ id >= Len(Get(ts).tokens) THEN None
  ELSE IF ~IsSome(m) THEN None
  ELSE LET shardIndex == ShardIndexOf(id, Get(m).shardSize)
           neighbors ==
             IF MapHas(cache, shardIndex)
             THEN At(ShardRows(cache[shardIndex]), id)
             ELSE Some(<< >>)
       IN  Some([s |-> Get(ts).tokens[id + 1], n |-> neighbors])

\* getToken(id) of a render that saw tokenStrings ts and manifest m, with
\* shardCache.current = cache at the time of the call. None is undefined.
getToken(ts, m, cache, id) ==
  IF ~IsSome(ts) \/ id < 0 \/ id >= Len(Get(ts).tokens) THEN None
  ELSE IF ~IsSome(m) THEN None
  ELSE LET shardIndex == ShardIndexOf(id, Get(m).shardSize)
           neighbors ==
             IF MapHas(cache, shardIndex)
             THEN At(ShardRows(cache[shardIndex]),
                     id - shardIndex * Get(m).shardSize)
             ELSE Some(<< >>)
       IN  Some([s |-> Get(ts).tokens[id + 1], n |-> neighbors])

\* ------------------------------------------------------- calls of the facade
\* The queries and limits the caller passes to search, the identifiers it
\* passes to getToken.
Queries ==
  { << >>, << "c", "a", "t" >>, << "C", "A", "T" >>, << "a", "t", "s" >>,
    << "x" >>, << "1" >>, << "2" >>, << "3" >>, << "0", "1" >>, << "7" >> }

Limits == {0, 1, 2, 50}

TokenIds == -1..(VocabQwen + 1)

\* The caller calls the search function the last render returned.
Search(q, lim) ==
  /\ mounted /\ call = NoCall
  /\ call' = [op |-> "search", arg |-> q, limit |-> lim,
              result |-> search(depTokenStrings, searchIndex, q, lim)]
  /\ UNCHANGED << mounted, hasIdle, modelId, embeddingType, selectedToken,
                  depManifest, depTokenStrings, dirty, loading, error,
                  tokenStrings, manifest, neighborsLoading, shardVersion,
                  searchIndex, caches, curCache, prefixRef, loads, p1Live,
                  fetches, p2Live, prefetchers, p3Live >>

\* The caller calls the getToken function the last render returned.
GetToken(id) ==
  /\ mounted /\ call = NoCall
  /\ call' = [op |-> "getToken", arg |-> id, limit |-> 0,
              result |-> getToken(depTokenStrings, depManifest,
                                   caches[curCache], id)]
  /\ UNCHANGED << mounted, hasIdle, modelId, embeddingType, selectedToken,
                  depManifest, depTokenStrings, dirty, loading, error,
                  tokenStrings, manifest, neighborsLoading, shardVersion,
                  searchIndex, caches, curCache, prefixRef, loads, p1Live,
                  fetches, p2Live, prefetchers, p3Live >>

\* The call returns.
Return ==
  /\ call # NoCall
  /\ call' = NoCall
  /\ UNCHANGED << mounted, hasIdle, modelId, embeddingType, selectedToken,
                  depManifest, depTokenStrings, dirty, loading, error,
                  tokenStrings, manifest, neighborsLoading, shardVersion,
                  searchIndex, caches, curCache, prefixRef, loads, p1Live,
                  fetches, p2Live, prefetchers, p3Live >>

\* The hook with its facade in use: the caller switches between two loadable
\* selectors, selects a token of either shard or none, and calls search and
\* getToken between the steps of the loader.
FacadeSelectors ==
  { << "qwen3-30b-a3b", "input" >>, << "gemma-3-4b", "input" >> }

FacadeTokens == {None, Some(1), Some(3)}

FacadeInit ==
  /\ Init
  /\ << modelId, embeddingType >> \in FacadeSelectors
  /\ selectedToken \in FacadeTokens
  /\ ~hasIdle

FacadeNext ==
  \/ Mount
  \/ \E s \in FacadeSelectors, t \in FacadeTokens : Update(s[1], s[2], t)
  \/ Rerender
  \/ \E l \in 1..MaxGen : ManifestOk(l)
  \/ \E l \in 1..MaxGen : TokensOk(l)
  \/ \E f \in 1..MaxFetch : ShardOk(f)
  \/ \E p \in 1..MaxGen : TimerFire(p)
  \/ \E p \in 1..MaxGen : PrefetchOk(p)
  \/ \E q \in Queries, lim \in Limits : Search(q, lim)
  \/ \E id \in TokenIds : GetToken(id)
  \/ Return

FacadeSpec == FacadeInit /\ [][FacadeNext]_vars

\* ------------------------------------------------------------ vocabulary
\* Load l is the load of the current selector session.
CurrentLoad(l) == l \in 1..Len(loads) /\ loads[l].session = curCache

\* On-demand fetch f is on the network.
Outstanding(f) == f \in 1..Len(fetches) /\ fetches[f].pc = "pending"

\* Prefetch closure p has a fetch on the network.
Prefetching(p) == p \in 1..Len(prefetchers) /\ prefetchers[p].pc = "fetching"

\* The step issues a fetch from prefetch closure p.
PrefetchIssued(p) ==
  /\ p \in 1..Len(prefetchers)
  /\ prefetchers'[p].pc = "fetching"
  /\ prefetchers[p].pc # "fetching" \/ prefetchers'[p].idx # prefetchers[p].idx

\* The step is a commit that changes the selector (or the first commit).
SelectorCommit ==
  /\ mounted'
  /\ ~mounted \/ modelId' # modelId \/ embeddingType' # embeddingType

\* The manifest or tokens fetch of the current session has thrown.
LoadFailed == \E l \in 1..Len(loads) : CurrentLoad(l) /\ loads[l].pc = "failed"

\* The shard cache the facade reads.
Cache == caches[curCache]

ShardIds == 0..((VocabQwen + ShardSize - 1) \div ShardSize)

\* --------------------------------------------------------------- claims

\* C1: generation isolation. The completion of an on-demand fetch issued
\* under an earlier selector (before the reset that replaced
\* shardCache.current) leaves the current shard cache as it was.
C1_GenerationIsolation ==
  [][\A f \in 1..Len(fetches) :
       (Outstanding(f) /\ fetches[f].session # curCache /\ ~Outstanding(f)')
         => caches'[curCache] = caches[curCache]]_vars

\* C2: coalescing. Within the current selector session at most one network
\* request per shard index is outstanding, on-demand fetches (superseded ones
\* included) and prefetch fetches counted together.
C2_Coalescing ==
  \A k \in ShardIds :
    Cardinality({f \in 1..Len(fetches) :
                   /\ Outstanding(f)
                   /\ fetches[f].session = curCache
                   /\ fetches[f].shardIndex = k})
      + Cardinality({p \in 1..Len(prefetchers) :
                   /\ Prefetching(p)
                   /\ prefetchers[p].cache = curCache
                   /\ prefetchers[p].idx = k}) <= 1

\* C3: stale table loads are inert. A step in which a load of an earlier
\* selector session advances (its manifest or tokens fetch returns or throws)
\* leaves manifest, token table, search index, error and loading unchanged.
C3_StaleLoadInert ==
  [][\A l \in 1..Len(loads) :
       (loads[l].session # curCache /\ loads'[l].pc # loads[l].pc)
         => UNCHANGED << manifest, tokenStrings, searchIndex, error,
                         loading >>]_vars

\* C3 witness: a load of an earlier session has returned after it was
\* superseded, while the current session's load is done or still running.
C3_Witness ==
  \E l \in 1..Len(loads) :
    /\ loads[l].pc = "stale"
    /\ loads[l].session # curCache
    /\ \E n \in 1..Len(loads) : CurrentLoad(n) /\ loads[n].pc \in {"tokens", "done"}

\* C4: the prefetcher issues no fetch for a shard index that is in its shard
\* cache at the moment the fetch is issued.
C4_PrefetchSkipsCached ==
  [][\A p \in 1..Len(prefetchers) :
       PrefetchIssued(p)
         => ~MapHas(caches'[prefetchers[p].cache], prefetchers'[p].idx)]_vars

\* Session g has its manifest and token table.
TableLoaded(g) == curCache = g /\ IsSome(manifest) /\ IsSome(tokenStrings)

\* Every shard of the loaded manifest is cached and no prefetch closure is
\* waiting, scheduled or fetching.
PrefetchComplete ==
  /\ IsSome(manifest)
  /\ \A i \in 0..(Get(manifest).numShards - 1) : MapHas(Cache, i)
  /\ \A p \in 1..Len(prefetchers) : prefetchers[p].pc \in {"stopped", "cleared"}

\* C5: prefetch completeness. When every shard fetch succeeds, a session
\* whose manifest and table are loaded either is replaced by a selector change
\* or reaches a state with all its shards cached and the prefetcher stopped.
C5_PrefetchCompletes ==
  \A g \in 2..(MaxGen + 1) :
    TableLoaded(g) ~> (curCache # g \/ PrefetchComplete)

\* C5 witness: a session with two shards has both of them cached, no
\* on-demand fetch was ever issued, and the prefetcher has stopped.
C5_Witness ==
  /\ PrefetchComplete
  /\ Get(manifest).numShards > 1
  /\ fetches = << >>
  /\ ~dirty

\* C6: whenever no re-render is pending, neighborsLoading is true exactly
\* when an on-demand fetch for the selected entity is outstanding and live.
C6_NeighborsLoadingIffOutstanding ==
  (mounted /\ ~dirty) =>
    (neighborsLoading <=>
       \E f \in 1..Len(fetches) :
         /\ Outstanding(f)
         /\ ~fetches[f].cancelled
         /\ selectedToken = Some(fetches[f].token))

\* C7: a commit that selects a pair without registry prefix ends with a
\* session error, loading false, manifest and table absent, and issues no
\* manifest, tokens or shard fetch.
C7_UnavailableSelectorNoFetch ==
  [][(SelectorCommit /\ PrefixOf(modelId', embeddingType') = None)
       => /\ IsSome(error') /\ ~loading'
          /\ manifest' = None /\ tokenStrings' = None
          /\ Len(loads') = Len(loads)
          /\ Len(fetches') = Len(fetches)
          /\ \A p \in 1..Len(prefetchers) : ~PrefetchIssued(p)]_vars

\* C8: once the manifest or tokens fetch of the current session has thrown,
\* error is set, loading is false, manifest and table are absent, and no
\* on-demand or prefetch fetch is issued for that session from then on.
C8_LoadFailure ==
  [][/\ LoadFailed'
          => /\ IsSome(error') /\ ~loading'
             /\ manifest' = None /\ tokenStrings' = None
     /\ (LoadFailed /\ curCache' = curCache)
          => /\ Len(fetches') = Len(fetches)
             /\ \A p \in 1..Len(prefetchers) :
                  PrefetchIssued(p) => prefetchers[p].cache # curCache]_vars

\* C8 witness: the manifest arrived and the tokens fetch of the current
\* session threw.
C8_Witness ==
  /\ LoadFailed
  /\ IsSome(error) /\ Get(error).kind = "tokens"
  /\ ~dirty

\* C9: a failed on-demand fetch writes no cache entry and, when live,
\* reports the error; and while a shard error is reported for an index that is
\* still uncached, a change of the selected entity to one of that shard issues
\* a new fetch for the index.
C9_FailedShardNotCached ==
  [][/\ \A f \in 1..Len(fetches) :
          (Outstanding(f) /\ fetches'[f].pc = "failed")
            => /\ caches' = caches
               /\ IsSome(error') /\ Get(error').kind = "shard"
               /\ Get(error').index = fetches[f].shardIndex
     /\ ( /\ mounted /\ ~SelectorCommit
          /\ IsSome(error) /\ Get(error).kind = "shard"
          /\ IsSome(manifest) /\ IsSome(tokenStrings)
          /\ depManifest = manifest /\ depTokenStrings = tokenStrings
          /\ selectedToken' # selectedToken /\ IsSome(selectedToken')
          /\ Get(selectedToken') >= 0
          /\ Get(selectedToken') < Get(manifest).vocabSize
          /\ ShardIndexOf(Get(selectedToken'), Get(manifest).shardSize)
               = Get(error).index
          /\ ~MapHas(Cache, Get(error).index) )
        => /\ Len(fetches') = Len(fetches) + 1
           /\ fetches'[Len(fetches')].shardIndex = Get(error).index
           /\ fetches'[Len(fetches')].pc = "pending"]_vars

\* C9 witness: the error of a failed fetch for an index is reported, the
\* index is not cached, and a new fetch for it is on the network.
C9_Witness ==
  /\ IsSome(error) /\ Get(error).kind = "shard"
  /\ ~MapHas(Cache, Get(error).index)
  /\ \E f \in 1..Len(fetches) :
       /\ Outstanding(f) /\ ~fetches[f].cancelled
       /\ fetches[f].session = curCache
       /\ fetches[f].shardIndex = Get(error).index

\* C10: with no re-render pending, a shard error is not reported any more
\* once the caller has selected a different entity whose shard is cached.
C10_ShardErrorOnlyForItsRequest ==
  ~ ( /\ mounted /\ ~dirty
      /\ IsSome(error) /\ Get(error).kind = "shard"
      /\ IsSome(manifest) /\ IsSome(selectedToken)
      /\ Get(selectedToken) # Get(error).token
      /\ Get(selectedToken) >= 0
      /\ Get(selectedToken) < Get(manifest).vocabSize
      /\ MapHas(Cache, ShardIndexOf(Get(selectedToken),
                                    Get(manifest).shardSize))
      /\ \A f \in 1..Len(fetches) : ~Outstanding(f) )

\* The index prefetch closure pf fetches next when its fetch has ended and the
\* Map it captured is cache: the first queued index that is not cached
\* (0 when none is left), and what is left of the queue after it.
NextQueued(pf, cache) ==
  LET open == {i \in 1..Len(pf.queue) : ~MapHas(cache, pf.queue[i])}
  IN  IF open = {} THEN [found |-> FALSE, idx |-> 0, queue |-> << >>]
      ELSE LET k == CHOOSE i \in open : \A j \in open : i <= j
           IN  [found |-> TRUE, idx |-> pf.queue[k],
                queue |-> SubSeq(pf.queue, k + 1, Len(pf.queue))]

\* C11: a failed prefetch fetch is never surfaced. The step in which the
\* fetch of a prefetch closure throws leaves error, loading and
\* neighborsLoading unchanged and adds no entry to any shard cache; and when
\* the closure is not cancelled it goes on with the next queued index that is
\* not cached, or stops when none is left.
C11_PrefetchFailureSwallowed ==
  [][\A p \in 1..Len(prefetchers) :
       PrefetchFail(p)
         => /\ UNCHANGED << error, loading, neighborsLoading, shardVersion >>
            /\ caches'[curCache] = caches[curCache]
            /\ \A i \in 1..Len(caches) : DOMAIN caches'[i] \subseteq DOMAIN caches[i]
            /\ ~prefetchers[p].cancelled
                 => LET nq == NextQueued(prefetchers[p],
                                         caches[prefetchers[p].cache])
                    IN  IF nq.found
                        THEN /\ prefetchers'[p].pc \in {"idle", "fetching"}
                             /\ prefetchers'[p].idx = nq.idx
                             /\ prefetchers'[p].queue = nq.queue
                        ELSE prefetchers'[p].pc = "stopped"]_vars

\* C11 witness: no on-demand fetch was ever issued, the prefetcher is at
\* index 1 with index 0 (which it fetched first) still uncached, and no error
\* is reported.
C11_Witness ==
  /\ fetches = << >>
  /\ error = None /\ ~loading /\ ~neighborsLoading
  /\ \E p \in 1..Len(prefetchers) :
       /\ prefetchers[p].pc \in {"idle", "fetching"}
       /\ ~prefetchers[p].cancelled
       /\ prefetchers[p].cache = curCache
       /\ prefetchers[p].idx = 1
       /\ ~MapHas(Cache, 0)

\* The step is a commit of the mounted hook that keeps the selector and
\* changes the selected entity to a token.
TokenCommit ==
  /\ mounted /\ ~SelectorCommit
  /\ selectedToken' # selectedToken
  /\ IsSome(selectedToken')

\* Token t lies in [0, vocabSize) of manifest m.
InRange(t, m) == Get(t) >= 0 /\ Get(t) < Get(m).vocabSize

\* The step issues no manifest, tokens, on-demand or prefetch fetch.
NoFetchIssued ==
  /\ Len(loads') = Len(loads)
  /\ Len(fetches') = Len(fetches)
  /\ \A p \in 1..Len(prefetchers) : ~PrefetchIssued(p)

\* C12: selecting an identifier that is negative or >= manifest.vocabSize
\* issues no network fetch and leaves the shard cache and neighborsLoading
\* unchanged.
C12_OutOfRangeNoFetch ==
  [][(TokenCommit /\ IsSome(manifest) /\ ~InRange(selectedToken', manifest))
       => /\ NoFetchIssued
          /\ caches'[curCache'] = caches[curCache]
          /\ neighborsLoading' = neighborsLoading]_vars

\* C12 witness: with the manifest loaded and rendered, the selection is out
\* of range and the fetch of the selection it replaced is still on the
\* network, superseded.
C12_Witness ==
  /\ mounted /\ IsSome(manifest) /\ depManifest = manifest
  /\ IsSome(selectedToken) /\ ~InRange(selectedToken, manifest)
  /\ \E f \in 1..Len(fetches) :
       /\ Outstanding(f) /\ fetches[f].cancelled
       /\ fetches[f].session = curCache

\* C13: selecting an identifier outside [0, vocabSize) once manifest and
\* table are loaded produces an error state: the commit that makes the
\* selection ends with error set.
C13_OutOfRangeReported ==
  [][(/\ TokenCommit
      /\ IsSome(manifest) /\ IsSome(tokenStrings)
      /\ ~InRange(selectedToken', manifest))
       => IsSome(error')]_vars

\* C14: a selector change invalidates everything downstream. The commit that
\* changes the selector ends with an empty shard cache and search index,
\* manifest and table absent, no error other than the registry error of the
\* new selector, neighborsLoading false, and loading true when the new
\* selector has a prefix.
C14_SelectorChangeInvalidates ==
  [][(mounted /\ SelectorCommit)
       => /\ caches'[curCache'] = EmptyMap
          /\ searchIndex' = << >>
          /\ manifest' = None /\ tokenStrings' = None
          /\ IF PrefixOf(modelId', embeddingType') = None
             THEN IsSome(error') /\ Get(error').kind \in {"unknown-model", "no-embedding"}
             ELSE error' = None /\ loading'
          /\ ~neighborsLoading']_vars

\* C15: selecting an entity whose shard index is already in the shard cache
\* issues no network fetch and does not modify the cache.
C15_CachedShardNoFetch ==
  [][(/\ TokenCommit
      /\ IsSome(manifest) /\ IsSome(tokenStrings)
      /\ InRange(selectedToken', manifest)
      /\ MapHas(Cache, ShardIndexOf(Get(selectedToken'),
                                    Get(manifest).shardSize)))
       => /\ NoFetchIssued
          /\ caches'[curCache'] = caches[curCache]]_vars

\* C15 witness: the rendered selection lies in a shard that is cached, and
\* no on-demand fetch was ever issued: the shard came from the prefetcher and
\* the Phase 2 effect that ran for the selection found it cached.
C15_Witness ==
  /\ mounted /\ ~dirty
  /\ IsSome(manifest) /\ depManifest = manifest
  /\ IsSome(selectedToken) /\ InRange(selectedToken, manifest)
  /\ MapHas(Cache, ShardIndexOf(Get(selectedToken), Get(manifest).shardSize))
  /\ fetches = << >>

\* The shard of manifest m whose identifier range holds token i.
ShardHolding(i, m) ==
  CHOOSE k \in 0..(Get(m).numShards - 1) :
    k * Get(m).shardSize <= i /\ i < (k + 1) * Get(m).shardSize

\* C16: selecting an in-range identifier i whose shard is not cached issues
\* exactly one on-demand fetch, for shard floor(i / shardSize) of the current
\* selector's dataset, and no other fetch.
C16_FetchesContainingShard ==
  [][(/\ TokenCommit
      /\ IsSome(manifest) /\ IsSome(tokenStrings)
      /\ InRange(selectedToken', manifest)
      /\ ~MapHas(Cache, ShardHolding(Get(selectedToken'), manifest)))
       => /\ Len(fetches') = Len(fetches) + 1
          /\ LET f == fetches'[Len(fetches')]
             IN  /\ f.pc = "pending" /\ ~f.cancelled
                 /\ f.shardIndex = ShardHolding(Get(selectedToken'), manifest)
                 /\ Some(f.prefix) = PrefixOf(modelId', embeddingType')
          /\ Len(loads') = Len(loads)
          /\ \A p \in 1..Len(prefetchers) : ~PrefetchIssued(p)]_vars

\* C16 witness: the fetch for the selected identifier is on the network, the
\* identifier is the first of a shard other than shard 0 (as 16384 is with
\* shardSize 16384), and the fetch is for that shard.
C16_Witness ==
  /\ IsSome(manifest) /\ IsSome(selectedToken)
  /\ \E f \in 1..Len(fetches) :
       /\ Outstanding(f) /\ ~fetches[f].cancelled
       /\ fetches[f].session = curCache
       /\ fetches[f].token = Get(selectedToken)
       /\ fetches[f].shardIndex >= 1
       /\ fetches[f].token = fetches[f].shardIndex * Get(manifest).shardSize

\* The running call is getToken(id) made with a loaded table and manifest in
\* the render's closure and id inside the table.
GetTokenInRange ==
  /\ call.op = "getToken"
  /\ IsSome(depTokenStrings) /\ IsSome(depManifest)
  /\ call.arg >= 0 /\ call.arg < Len(Get(depTokenStrings).tokens)

\* C17: for an in-range identifier whose shard is not in the shard cache,
\* the neighbors getToken returns are undefined (absent), not an empty list.
C17_NeighborsAbsentUntilCached ==
  (/\ GetTokenInRange
   /\ ~MapHas(Cache, ShardHolding(call.arg, depManifest)))
    => (IsSome(call.result) => Get(call.result).n = None)

\* C18: getToken(id) returns undefined exactly when the table or the manifest
\* is not loaded or id is outside [0, table length); otherwise it returns the
\* table string at id, and when shard s = floor(id / shardSize) is cached the
\* neighbors are the cached shard's entry at local index id - s * shardSize,
\* which lies in [0, shardSize).
C18_GetToken ==
  call.op = "getToken" =>
    IF ~GetTokenInRange THEN call.result = None
    ELSE /\ IsSome(call.result)
         /\ Get(call.result).s = Get(depTokenStrings).tokens[call.arg + 1]
         /\ LET s == ShardHolding(call.arg, depManifest)
                local == call.arg - s * Get(depManifest).shardSize
            IN  MapHas(Cache, s)
                  => /\ local >= 0 /\ local < Get(depManifest).shardSize
                     /\ Get(call.result).n = At(ShardRows(Cache[s]), local)

\* C18 witness: getToken returned the string and a non-empty neighbor list
\* for an identifier that is not the first of its shard, in a shard other
\* than shard 0.
C18_Witness ==
  /\ GetTokenInRange
  /\ IsSome(call.result)
  /\ IsSome(Get(call.result).n) /\ Get(Get(call.result).n) # << >>
  /\ ShardHolding(call.arg, depManifest) >= 1
  /\ call.arg > ShardHolding(call.arg, depManifest) * Get(depManifest).shardSize

C20_SearchAtMostLimit ==
  call.op = "search" => Len(call.result) <= call.limit

\* The running call is search(query) made with a table in the render's
\* closure and a query of decimal digits whose value is inside the table.
NumericHit ==
  /\ call.op = "search"
  /\ IsSome(depTokenStrings)
  /\ IsDigits(call.arg)
  /\ Number(call.arg) < Len(Get(depTokenStrings).tokens)

\* C21: when the query consists of decimal digits and its value is in
\* [0, table length), that identifier is the first search result, with its
\* table string, whether or not the string contains the query, and it appears
\* exactly once in the results.
C21_IntegerLiteralFirst ==
  NumericHit =>
    /\ call.result # << >>
    /\ call.result[1].id = Number(call.arg)
    /\ call.result[1].text = At(Get(depTokenStrings).tokens, Number(call.arg))
    /\ Cardinality({r \in 1..Len(call.result) :
                      call.result[r].id = Number(call.arg)}) = 1

\* C21 witness: the query is the identifier of a token whose string contains
\* the query, and the scan ran over the whole index built from the table (the
\* limit was not reached), passing the bucket that holds the identifier.
C21_Witness ==
  /\ NumericHit /\ ~dirty
  /\ includes(toLowerCase(Get(depTokenStrings).tokens[Number(call.arg) + 1]),
              toLowerCase(call.arg))
  /\ Len(call.result) < call.limit
  /\ searchIndex = BuildIndex(Get(depTokenStrings).tokens)

\* The identifiers of table tokens whose lowercased string contains the
\* lowercased query.
Matching(tokens, query) ==
  {i \in 0..(Len(tokens) - 1) :
     \E k \in 0..(Len(tokens[i + 1]) - Len(query)) :
       toLowerCase(SubSeq(tokens[i + 1], k + 1, k + Len(query)))
         = toLowerCase(query)}

\* The identifiers the running call returned.
ResultIds == {call.result[r].id : r \in 1..Len(call.result)}

\* The running call is search(query, limit) for a non-empty query, made with
\* the table of the current render and a limit that is at least its length.
SearchUnlimited ==
  /\ call.op = "search" /\ ~dirty
  /\ IsSome(depTokenStrings)
  /\ call.arg # << >>
  /\ call.limit >= Len(Get(depTokenStrings).tokens)

C23_TableOrder ==
  (call.op = "search" /\ ~dirty) =>
    \A a, b \in 1..Len(call.result) :
      (a < b /\ (NumericHit => a > 1))
        => call.result[a].id < call.result[b].id

\* The manifest and token table of selector session g have been loaded.
LoadedIn(g) ==
  \E l \in 1..Len(loads') : loads'[l].pc = "done" /\ loads'[l].session = g

\* C24: no shard fetch, on-demand or prefetch, is issued in a selector session
\* whose manifest and token table have not been loaded; in particular the
\* commit that changes selector and selected entity together issues none with
\* the new selector's prefix and the previous selector's manifest.
C24_NoShardFetchBeforeLoad ==
  [][/\ Len(fetches') > Len(fetches)
          => LoadedIn(fetches'[Len(fetches')].session)
     /\ \A p \in 1..Len(prefetchers) :
          PrefetchIssued(p) => LoadedIn(prefetchers'[p].cache)]_vars

\* C25: whenever the hook's consumers hold a token table (the table of the
\* last render), searchIndex.current is the index built from that table; this
\* includes the states between the reset of a selector change and the
\* re-render that removes the old table.
C25_TableHasItsIndex ==
  (mounted /\ IsSome(depTokenStrings))
    => searchIndex = BuildIndex(Get(depTokenStrings).tokens)

\* Prefetch closure p was created in a selector session that has been replaced.
StalePrefetcher(p) ==
  p \in 1..Len(prefetchers) /\ prefetchers[p].cache # curCache

\* C26: after a selector change the previous session's prefetch loop stops.
\* A prefetch closure of a replaced session issues no further fetch and takes
\* no further step through its queue (it keeps its position or ends), and the
\* completion of its fetch leaves the new session's shard cache unchanged.
C26_PrefetchStopsOnSelectorChange ==
  [][\A p \in 1..Len(prefetchers) :
       StalePrefetcher(p)
         => /\ ~PrefetchIssued(p)
            /\ \/ prefetchers'[p].pc \in {"stopped", "cleared"}
               \/ /\ prefetchers'[p].pc = prefetchers[p].pc
                  /\ prefetchers'[p].idx = prefetchers[p].idx
                  /\ prefetchers'[p].queue = prefetchers[p].queue
            /\ prefetchers'[p] # prefetchers[p]
                 => caches'[curCache'] = caches[curCache]]_vars

\* C27: in every reachable state at most one background prefetch fetch is in
\* flight (on the network, whether or not its closure has been cancelled).
C27_OnePrefetchInFlight ==
  Cardinality({p \in 1..Len(prefetchers) : Prefetching(p)}) <= 1

\* An on-demand fetch for shard index k of the current selector's dataset has
\* failed in the current session: its error is the one reported.
FailedOnDemand(k) ==
  /\ mounted
  /\ IsSome(error) /\ Get(error).kind = "shard"
  /\ Some(Get(error).prefix) = PrefixOf(modelId, embeddingType)
  /\ Get(error).index = k

\* The step is the caller selecting an entity of shard k.
Retriggered(k) ==
  /\ TokenCommit
  /\ IsSome(manifest)
  /\ ShardIndexOf(Get(selectedToken'), Get(manifest).shardSize) = k

\* C28: no automatic retry. While the failure of the on-demand fetch for a
\* shard index is reported and the selector stays as it is, no new fetch for
\* that index is issued, neither on demand nor by the prefetcher, unless the
\* caller selects an entity of that shard.
C28_NoAutomaticRetry ==
  [][\A k \in ShardIds :
       (FailedOnDemand(k) /\ curCache' = curCache /\ ~Retriggered(k))
         => /\ Len(fetches') > Len(fetches)
                 => fetches'[Len(fetches')].shardIndex # k
            /\ \A p \in 1..Len(prefetchers) :
                 (PrefetchIssued(p) /\ prefetchers'[p].cache = curCache)
                   => prefetchers'[p].idx # k]_vars

\* C29: within one selector session the shard cache only grows (a step that
\* keeps the session removes no key of shardCache.current), and every cached
\* key is a shard index of the session's manifest, in [0, numShards).
C29_CacheGrowsWithinRange ==
  [][/\ curCache' = curCache
          => DOMAIN caches[curCache] \subseteq DOMAIN caches'[curCache']
     /\ IsSome(manifest')
          => \A k \in DOMAIN caches'[curCache'] :
               k >= 0 /\ k < Get(manifest').numShards]_vars

\* A manifest/token-table load of the current selector session is outstanding:
\* issued, and neither completed nor failed.
LoadOutstanding ==
  \E l \in 1..Len(loads) :
    CurrentLoad(l) /\ loads[l].pc \in {"manifest", "tokens"}

\* C30: once the hook is mounted, loading is true exactly when a load for the
\* current selector is outstanding; and whenever loading is false, manifest
\* and table are both present or error is set.
C30_LoadingIffLoadOutstanding ==
  mounted =>
    /\ loading <=> LoadOutstanding
    /\ ~loading => ((IsSome(manifest) /\ IsSome(tokenStrings)) \/ IsSome(error))

\* C30 witness: the selector was changed while the previous load was still
\* running; that load is superseded and still on the network, the new
\* session's load is waiting for its tokens, and loading is true.
C30_Witness ==
  /\ mounted /\ ~dirty /\ loading
  /\ \E l \in 1..Len(loads) : CurrentLoad(l) /\ loads[l].pc = "tokens"
  /\ \E l \in 1..Len(loads) :
       /\ ~CurrentLoad(l) /\ loads[l].cancelled
       /\ loads[l].pc \in {"manifest", "tokens"}

\* C31: prefetch debounce. A prefetch closure issues its first fetch only in
\* the step in which its delay timer fires; and when the selector changes
\* while the timer is still pending, the timer never starts the loop: the
\* closure stays waiting until it is cleared, and issues no fetch.
C31_PrefetchDebounce ==
  [][\A p \in 1..Len(prefetchers) :
       /\ (prefetchers[p].pc = "timer" /\ prefetchers'[p].pc # "timer")
            => (TimerFire(p) \/ prefetchers'[p].pc = "cleared")
       /\ (StalePrefetcher(p) /\ prefetchers[p].pc = "timer")
            => prefetchers'[p].pc \in {"timer", "cleared", "stopped"}]_vars

\* Sequence s is strictly ascending.
Ascending(s) == \A i, j \in 1..Len(s) : i < j => s[i] < s[j]

\* The elements of sequence s.
Range(s) == {s[i] : i \in 1..Len(s)}

\* C32: when the delay timer fires, the indices the closure is going to fetch
\* (the one it takes first and its queue) are the ascending list of the shard
\* indices in [0, numShards) missing from the cache; every later fetch of the
\* closure is for a larger index than the one before; and when the closure
\* takes its next index, the queued indices it passes over are in the cache
\* and the one it takes is not (the shard the closure has just written is
\* none of them: it left the queue when its fetch was issued).
C32_PrefetchQueueOrder ==
  [][\A p \in 1..Len(prefetchers) :
       LET pf == prefetchers[p]
           nf == prefetchers'[p]
           missing == {i \in 0..(pf.numShards - 1) :
                         ~MapHas(caches[pf.cache], i)}
           taken == pf.pc \in {"timer", "fetching"} /\ nf.pc \in {"idle", "fetching"}
                    /\ (pf.pc = "fetching" => nf.idx # pf.idx)
       IN  /\ (TimerFire(p) /\ ~pf.cancelled)
                => IF missing = {} THEN nf.pc = "stopped"
                   ELSE /\ nf.pc \in {"idle", "fetching"}
                        /\ Ascending(<< nf.idx >> \o nf.queue)
                        /\ Range(<< nf.idx >> \o nf.queue) = missing
           /\ (pf.pc = "fetching" /\ taken)
                => /\ nf.idx > pf.idx
                   /\ \E k \in 1..Len(pf.queue) :
                        /\ pf.queue[k] = nf.idx
                        /\ nf.queue = SubSeq(pf.queue, k + 1, Len(pf.queue))
                        /\ \A j \in 1..(k - 1) :
                             MapHas(caches[pf.cache], pf.queue[j])
                   /\ ~MapHas(caches[pf.cache], nf.idx)
           /\ (pf.pc = "fetching" /\ ~pf.cancelled /\ nf.pc = "stopped")
                => \A j \in 1..Len(pf.queue) :
                     MapHas(caches[pf.cache], pf.queue[j])]_vars

\* C32 witness: the closure built the queue 0, 1 and is fetching index 0, and
\* index 1 has been cached by an on-demand fetch meanwhile, so it will be
\* passed over.
C32_Witness ==
  \E p \in 1..Len(prefetchers) :
    /\ prefetchers[p].pc = "fetching" /\ ~prefetchers[p].cancelled
    /\ prefetchers[p].cache = curCache
    /\ prefetchers[p].idx = 0 /\ prefetchers[p].queue = << 1 >>
    /\ MapHas(Cache, 1) /\ ~MapHas(Cache, 0)

\* C33: the token-table fetch of a load is issued only in the step in which
\* its manifest fetch returns successfully, and only when the load is that of
\* the current selector session and has not been superseded; a load whose
\* manifest fetch failed, or whose selector was replaced while the manifest
\* fetch was outstanding, never issues it.
C33_TokensAfterManifest ==
  [][\A l \in 1..Len(loads) :
       /\ (loads'[l].pc = "tokens" /\ loads[l].pc # "tokens")
            => /\ ManifestOk(l)
               /\ loads[l].pc = "manifest"
               /\ ~loads[l].cancelled
               /\ CurrentLoad(l)
       /\ (loads[l].pc = "manifest" /\ ~CurrentLoad(l))
            => loads'[l].pc \in {"manifest", "stale"}
       /\ ManifestFail(l) => loads'[l].pc \in {"failed", "stale"}
       /\ loads[l].pc \in {"failed", "stale", "done"}
            => loads'[l].pc = loads[l].pc]_vars

\* C33 witness: the manifest fetch of the current session has failed; its
\* error is reported and the load has ended without a tokens fetch.
C33_Witness ==
  /\ LoadFailed
  /\ IsSome(error) /\ Get(error).kind = "manifest"
  /\ \A l \in 1..Len(loads) : loads[l].pc # "tokens"
  /\ ~dirty

\* ------------------------------------------------------------- index build
\* The index build of lines 113-122 applied to arbitrary small tables: the
\* strings below fold onto each other ("c"/"C", "cA"/"Ca") or stay apart.
MaxTable == 3

IndexStrings ==
  { <<"c">>, <<"C">>, <<"a">>, <<"c","A">>, <<"C","a">> }

Tables == UNION { [1..n -> IndexStrings] : n \in 0..MaxTable }

\* A tokens file has arrived (line 107) and its index is about to be built.
IndexInit ==
  /\ mounted = FALSE
  /\ hasIdle = FALSE
  /\ modelId = "qwen3-30b-a3b"
  /\ embeddingType = "input"
  /\ selectedToken = None
  /\ loading = TRUE
  /\ error = None
  /\ tokenStrings = None
  /\ manifest = None
  /\ neighborsLoading = FALSE
  /\ shardVersion = 0
  /\ depManifest = None
  /\ depTokenStrings = None
  /\ dirty = FALSE
  /\ searchIndex = << >>
  /\ caches = << EmptyMap >>
  /\ curCache = 1
  /\ prefixRef = None
  /\ loads = << >>
  /\ p1Live = 0
  /\ fetches = << >>
  /\ p2Live = 0
  /\ prefetchers = << >>
  /\ p3Live = 0
  /\ \E t \in Tables :
       call = [op |-> "tokens", arg |-> t, limit |-> 0, result |-> << >>]

\* Lines 113-122: idx is built from tokens.
IndexBuild ==
  /\ call.op = "tokens"
  /\ call' = [op |-> "idx", arg |-> call.arg, limit |-> 0,
              result |-> BuildIndex(call.arg)]
  /\ UNCHANGED << mounted, hasIdle, modelId, embeddingType, selectedToken,
                  depManifest, depTokenStrings, dirty, loading, error,
                  tokenStrings, manifest, neighborsLoading, shardVersion,
                  searchIndex, caches, curCache, prefixRef, loads, p1Live,
                  fetches, p2Live, prefetchers, p3Live >>

IndexSpec == IndexInit /\ [][IndexBuild]_vars

\* C34: the index built from a table of length n has one entry per distinct
\* lowercased string of the table; the entry's bucket lists, in strictly
\* ascending order, exactly the identifiers whose lowercased string is the
\* key, so the buckets are non-empty, pairwise disjoint and cover 0..n-1;
\* and the entries stand in the order of their buckets' first identifiers.
\* (The build reads nothing but the table, so the same table gives the same
\* index.)
C34_IndexBuild ==
  call.op = "idx" =>
    LET tokens == call.arg
        idx == call.result
        n == Len(tokens)
    IN  /\ \A e \in 1..Len(idx) :
             /\ Len(idx[e].ids) > 0
             /\ \A i \in 1..(Len(idx[e].ids) - 1) :
                  idx[e].ids[i] < idx[e].ids[i + 1]
             /\ { idx[e].ids[i] : i \in 1..Len(idx[e].ids) }
                  = { id \in 0..(n - 1) :
                        toLowerCase(tokens[id + 1]) = idx[e].key }
        /\ \A e1, e2 \in 1..Len(idx) :
             e1 < e2 => /\ idx[e1].key # idx[e2].key
                        /\ idx[e1].ids[1] < idx[e2].ids[1]
        /\ \A id \in 0..(n - 1) :
             \E e \in 1..Len(idx) :
               \E i \in 1..Len(idx[e].ids) : idx[e].ids[i] = id

\* C34 witness: a table of three strings was indexed into two buckets, the
\* first holding the identifiers 0 and 2 of strings that differ in case.
C34_Witness ==
  /\ call.op = "idx"
  /\ Len(call.arg) = 3
  /\ call.arg[1] # call.arg[3]
  /\ Len(call.result) = 2
  /\ call.result[1].ids = << 0, 2 >>
  /\ call.result[2].ids = << 1 >>

\* ---------------------------------------------------------- fetch and decode
\* fetchAndDecompress (the hook) and fetchAsset (the /og function) applied to
\* arbitrary small responses.  Bytes are their numeric values.
MaxPayload == 4

OpenBrace == 123    \* 0x7b '{'
CloseBrace == 125   \* 0x7d '}'
OpenBracket == 91   \* 0x5b '['
CloseBracket == 93  \* 0x5d ']'
Space == 32         \* 0x20 ' '
Escape == 27        \* 0x1b

PayloadBytes ==
  { OpenBrace, CloseBrace, OpenBracket, CloseBracket, Space, Escape }

Payloads == UNION { [1..n -> PayloadBytes] : n \in 0..MaxPayload }

\* What the network and the decoder module hand to one call: whether
\* fetch() resolved, resp.ok, the body, and whether the brotli module
\* could be initialised.
Responses ==
  [arrives : BOOLEAN, ok : BOOLEAN, bytes : Payloads, brotli : BOOLEAN]

\* new TextDecoder().decode(bytes), on the bytes above.
DecodeByte(b) ==
  CASE b = OpenBrace -> "{" [] b = CloseBrace -> "}"
    [] b = OpenBracket -> "[" [] b = CloseBracket -> "]"
    [] b = Space -> " " [] OTHER -> "\\u001b"

TextDecode(bytes) == [i \in 1..Len(bytes) |-> DecodeByte(bytes[i])]

\* A brotli stream opens with a header byte that gives the window size and
\* the first meta-block header; 0x1b and 0x5b are both headers of
\* well-formed streams.  The streams here carry their content stored.
BrotliHeaders == { Escape, OpenBracket }

IsBrotli(bytes) == Len(bytes) >= 1 /\ bytes[1] \in BrotliHeaders

\* brotli.decompress(bytes) of a well-formed stream.
Decompress(bytes) == Tail(bytes)

\* JSON.parse on texts of braces, brackets and blanks: insignificant
\* whitespace is dropped, and the values are {}, [] and arrays of one value.
NoBlanks(text) == SelectSeq(text, LAMBDA c : c # " ")

RECURSIVE IsJsonValue(_)
IsJsonValue(s) ==
  \/ s = << "{", "}" >>
  \/ /\ Len(s) >= 2
     /\ s[1] = "[" /\ s[Len(s)] = "]"
     /\ \/ Len(s) = 2
        \/ IsJsonValue(SubSeq(s, 2, Len(s) - 1))

IsJson(text) == IsJsonValue(NoBlanks(text))

\* The value JSON.parse returns, written without blanks.
JsonParse(text) == NoBlanks(text)

Thrown(path) == [threw |-> TRUE, path |-> path, value |-> None]
Returned(path, v) == [threw |-> FALSE, path |-> path, value |-> Some(v)]

\* Line 52 / part_003 line 193: JSON.parse(json).
ParseVia(path, text) ==
  IF IsJson(text) THEN Returned(path, JsonParse(text)) ELSE Thrown(path)

\* Variant that takes only '{' for raw JSON.
fetchAndDecompress_ObjectsOnly(resp) ==
  IF ~resp.arrives \/ ~resp.brotli THEN Thrown("none")
  ELSE IF ~resp.ok THEN Thrown("none")
  ELSE IF Len(resp.bytes) >= 1 /\ resp.bytes[1] = OpenBrace
       THEN ParseVia("direct", TextDecode(resp.bytes))
       ELSE IF IsBrotli(resp.bytes)
            THEN ParseVia("brotli", TextDecode(Decompress(resp.bytes)))
            ELSE Thrown("brotli")

\* Lines 40-53.  Promise.all rejects when fetch or the brotli module does.
fetchAndDecompress(resp) ==
  IF ~resp.arrives \/ ~resp.brotli THEN Thrown("none")
  ELSE IF ~resp.ok THEN Thrown("none")
  ELSE IF Len(resp.bytes) >= 1 /\ resp.bytes[1] \in {OpenBrace, OpenBracket}
       THEN ParseVia("direct", TextDecode(resp.bytes))
       ELSE IF IsBrotli(resp.bytes)
            THEN ParseVia("brotli", TextDecode(Decompress(resp.bytes)))
            ELSE Thrown("brotli")

\* part_003 lines 173-194: the brotli module is initialised on the brotli
\* path only (initSync, line 189).
fetchAsset(resp) ==
  IF ~resp.arrives THEN Thrown("none")
  ELSE IF ~resp.ok THEN Thrown("none")
  ELSE IF Len(resp.bytes) >= 1 /\ resp.bytes[1] \in {OpenBrace, OpenBracket}
       THEN ParseVia("direct", TextDecode(resp.bytes))
       ELSE IF resp.brotli /\ IsBrotli(resp.bytes)
            THEN ParseVia("brotli", TextDecode(Decompress(resp.bytes)))
            ELSE Thrown("brotli")

\* A call of one of the two functions is about to be answered by resp.
FetchInit ==
  /\ mounted = FALSE
  /\ hasIdle = FALSE
  /\ modelId = "qwen3-30b-a3b"
  /\ embeddingType = "input"
  /\ selectedToken = None
  /\ loading = TRUE
  /\ error = None
  /\ tokenStrings = None
  /\ manifest = None
  /\ neighborsLoading = FALSE
  /\ shardVersion = 0
  /\ depManifest = None
  /\ depTokenStrings = None
  /\ dirty = FALSE
  /\ searchIndex = << >>
  /\ caches = << EmptyMap >>
  /\ curCache = 1
  /\ prefixRef = None
  /\ loads = << >>
  /\ p1Live = 0
  /\ fetches = << >>
  /\ p2Live = 0
  /\ prefetchers = << >>
  /\ p3Live = 0
  /\ \E resp \in Responses :
       call = [op |-> "url", arg |-> resp, limit |-> 0, result |-> << >>]

FetchFrame ==
  UNCHANGED << mounted, hasIdle, modelId, embeddingType, selectedToken,
               depManifest, depTokenStrings, dirty, loading, error,
               tokenStrings, manifest, neighborsLoading, shardVersion,
               searchIndex, caches, curCache, prefixRef, loads, p1Live,
               fetches, p2Live, prefetchers, p3Live >>

FetchAndDecompress ==
  /\ call.op = "url"
  /\ call' = [op |-> "fetchAndDecompress", arg |-> call.arg, limit |-> 0,
              result |-> fetchAndDecompress(call.arg)]
  /\ FetchFrame

FetchAsset ==
  /\ call.op = "url"
  /\ call' = [op |-> "fetchAsset", arg |-> call.arg, limit |-> 0,
              result |-> fetchAsset(call.arg)]
  /\ FetchFrame

FetchNext == FetchAndDecompress \/ FetchAsset

FetchSpec == FetchInit /\ [][FetchNext]_vars

\* The response reached the decode step: fetch resolved, and for the hook
\* the brotli module, awaited together with the fetch, loaded.
Answered ==
  /\ call.op \in {"fetchAndDecompress", "fetchAsset"}
  /\ call.arg.arrives
  /\ call.op = "fetchAndDecompress" => call.arg.brotli

\* The payload opens with '{' or '['.
RawJsonLead ==
  /\ Len(call.arg.bytes) >= 1
  /\ call.arg.bytes[1] \in {123, 91}

\* C35: a response that is not OK fails without any decoding.  An OK
\* response is decoded on the path its first byte selects: directly as text
\* when that byte is '{' or '[', through brotli otherwise, an empty payload
\* included.  The call yields a value exactly when the selected path
\* succeeds, and that value is the JSON value of the text of that path; a
\* call that throws yields no value.
C35_DecodePath ==
  LET r == call.result
      bytes == call.arg.bytes
  IN  /\ call.op \in {"fetchAndDecompress", "fetchAsset"}
           => (r.threw <=> r.value = None)
      /\ (Answered /\ ~call.arg.ok) => (r.threw /\ r.path = "none")
      /\ (Answered /\ call.arg.ok /\ RawJsonLead)
           => /\ r.path = "direct"
              /\ r.threw <=> ~IsJson(TextDecode(bytes))
              /\ ~r.threw => Get(r.value) = NoBlanks(TextDecode(bytes))
      /\ (Answered /\ call.arg.ok /\ ~RawJsonLead)
           => /\ r.path = "brotli"
              /\ r.threw <=>
                   ~(/\ call.arg.brotli
                     /\ IsBrotli(bytes)
                     /\ IsJson(TextDecode(Tail(bytes))))
              /\ ~r.threw => Get(r.value) = NoBlanks(TextDecode(Tail(bytes)))

\* C35 witness: the hook's function got an OK response whose payload is a
\* brotli stream, and returned the empty object it holds.
C35_Witness ==
  /\ call.op = "fetchAndDecompress"
  /\ call.arg.ok /\ call.arg.arrives
  /\ call.arg.bytes = << 27, 123, 32, 125 >>
  /\ call.result.path = "brotli"
  /\ call.result.value = Some(<< "{", "}" >>)

\* search(query, limit) of the function the last render returned.
SearchNow(q, lim) == search(depTokenStrings, searchIndex, q, lim)

\* The step is the completion or failure of a shard fetch, or a step of a
\* prefetch loop (its timer, its idle callback).
ShardEvent ==
  \/ \E f \in 1..Len(fetches) : ShardOk(f) \/ ShardFail(f)
  \/ \E p \in 1..Len(prefetchers) :
       TimerFire(p) \/ IdleFire(p) \/ PrefetchOk(p) \/ PrefetchFail(p)

\* The step is a commit that starts an on-demand fetch or a prefetch loop
\* while the selector and the rendered table stay as they were.
ShardFetchStarted ==
  /\ Len(fetches') > Len(fetches) \/ Len(prefetchers') > Len(prefetchers)
  /\ ~SelectorCommit
  /\ depTokenStrings' = depTokenStrings

\* The rendered table is loaded and no shard is cached.
TableWithoutShards ==
  mounted /\ ~dirty /\ IsSome(depTokenStrings) /\ Cache = EmptyMap

\* C36: search depends on the token table and its index only.  Whenever a
\* step leaves a loaded table rendered and no shard cached, the index search
\* scans is the table's own index and search("cat") returns results,
\* whichever fetches are under way; and no shard fetch start, completion,
\* failure, cache write or prefetch step changes the table or the index,
\* the only two values search reads, so the result of search for every
\* query stays as it was.
C36_SearchIgnoresShards ==
  [][/\ TableWithoutShards'
          => /\ searchIndex' = BuildIndex(Get(depTokenStrings').tokens)
             /\ Len(SearchNow(<< "c", "a", "t" >>, 50)') > 0
     /\ (ShardEvent \/ ShardFetchStarted)
          => /\ depTokenStrings' = depTokenStrings
             /\ searchIndex' = searchIndex]_vars

\* C36 witness: the table is rendered, no shard is cached, an on-demand fetch
\* is on the network, and search("cat") returns both tokens that fold to
\* "cat" and the two that contain it.
C36_Witness ==
  /\ mounted /\ ~dirty
  /\ IsSome(depTokenStrings)
  /\ Cache = EmptyMap
  /\ \E f \in 1..Len(fetches) : Outstanding(f) /\ ~fetches[f].cancelled
  /\ Len(SearchNow(<< "c", "a", "t" >>, 50)) = 4

\* On-demand fetch f is on the network and its effect has not been cleaned up.
LiveFetch(f) == Outstanding(f) /\ ~fetches[f].cancelled

\* C37: at most one on-demand fetch is live; a live on-demand fetch is for
\* the shard of the selected entity; and every change of the selected
\* entity, of the manifest or of the token table leaves no on-demand fetch
\* that was live before the change live after it.
C37_OneLiveOnDemandFetch ==
  [][/\ Cardinality({f \in 1..Len(fetches') : LiveFetch(f)'}) <= 1
     /\ \A f \in 1..Len(fetches') :
          LiveFetch(f)'
            => /\ IsSome(selectedToken')
               /\ fetches'[f].token = Get(selectedToken')
               /\ fetches'[f].shardIndex =
                    ShardIndexOf(fetches'[f].token, ShardSize)
     /\ (\/ selectedToken' # selectedToken
         \/ manifest' # manifest
         \/ tokenStrings' # tokenStrings)
          => \A f \in 1..Len(fetches) : LiveFetch(f) => ~LiveFetch(f)']_vars

\* On-demand fetch f of the current selector session is on the network and
\* the selection it was issued for has been replaced.
Superseded(f) ==
  /\ Outstanding(f)
  /\ fetches[f].cancelled
  /\ fetches[f].session = curCache

\* C38: when an on-demand fetch that was superseded within its selector
\* session completes or fails, the step writes no shard cache, leaves error
\* and neighborsLoading as they were and schedules no shard-version update;
\* so its shard is cached afterwards only if it already was.
C38_SupersededFetchDiscarded ==
  [][\A f \in 1..Len(fetches) :
       (Superseded(f) /\ ~Outstanding(f)')
         => /\ caches' = caches
            /\ error' = error
            /\ neighborsLoading' = neighborsLoading
            /\ shardVersion' = shardVersion
            /\ fetches'[f].pc = "stale"]_vars

\* C38 witness: in the first selector session the fetch for the first
\* selection ended discarded while the fetch for the second selection is
\* live; shard 0 is not cached, no error is set and neighborsLoading is true.
C38_Witness ==
  /\ curCache = 2
  /\ Len(fetches) = 2
  /\ fetches[1].pc = "stale"
  /\ LiveFetch(2) /\ fetches[2].shardIndex = 1
  /\ ~MapHas(Cache, 0)
  /\ error = None
  /\ neighborsLoading

\* ------------------------------------------------------ the /og function
\* onRequestGet of part_003 serving one request after another.  A request is
\* its three query parameters, None for a parameter that is absent.  The
\* variable call holds the request being served: op is the handler's
\* position, arg the request, and result the response status, the assets
\* fetched so far, the step that threw (if any) and the cached response.
MaxTokenParam == 2

TokenChars == { "1", "3", "-", "x" }

TokenParams ==
  {None} \cup
  { Some(s) : s \in UNION { [1..n -> TokenChars] : n \in 0..MaxTokenParam } }

ModelParams ==
  { None, Some(""), Some("qwen3-30b-a3b"), Some("gemma-3-4b"), Some("gpt-2") }

EmbeddingParams == { None, Some(""), Some("input"), Some("output") }

Requests ==
  [model : ModelParams, embedding : EmbeddingParams, token : TokenParams]

RECURSIVE LeadingDigits(_, _)
\* The longest run of decimal digits of s from position i on.
LeadingDigits(s, i) ==
  IF i > Len(s) \/ ~IsDigits(<< s[i] >>) THEN << >>
  ELSE << s[i] >> \o LeadingDigits(s, i + 1)

\* parseInt(s, 10): an optional sign, then the digits up to the first
\* character that is not one; None is NaN.
parseInt(s) ==
  LET neg == Len(s) >= 1 /\ s[1] = "-"
      digits == LeadingDigits(s, IF neg THEN 2 ELSE 1)
  IN  IF digits = << >> THEN None
      ELSE Some(IF neg THEN 0 - Number(digits) ELSE Number(digits))

\* Line 296: url.searchParams.get("embedding") || "input".
EmbeddingOf(req) ==
  IF req.embedding \in {None, Some("")} THEN "input" ELSE Get(req.embedding)

\* Line 313: MODEL_PREFIXES[model]?.[embedding].
OgPrefix(req) == PrefixOf(Get(req.model), EmbeddingOf(req))

Asset(prefix, kind, index) == [prefix |-> prefix, kind |-> kind, index |-> index]

OgState(pc, req, status, fetched, threw, cache) ==
  [op |-> pc, arg |-> req, limit |-> 0,
   result |-> [status |-> status, fetched |-> fetched, threw |-> threw,
               cache |-> cache]]

NoRequest == [model |-> None, embedding |-> None, token |-> None]

OgFrame ==
  UNCHANGED << mounted, hasIdle, modelId, embeddingType, selectedToken,
               depManifest, depTokenStrings, dirty, loading, error,
               tokenStrings, manifest, neighborsLoading, shardVersion,
               searchIndex, caches, curCache, prefixRef, loads, p1Live,
               fetches, p2Live, prefetchers, p3Live >>

\* The handler moves to position pc.
OgGoto(pc) ==
  call' = [call EXCEPT !.op = pc]

\* The handler returns a response with the given status.
OgRespond(status) ==
  call' = [call EXCEPT !.op = "responded", !.result.status = status]

OgInit ==
  /\ mounted = FALSE
  /\ hasIdle = FALSE
  /\ modelId = "qwen3-30b-a3b"
  /\ embeddingType = "input"
  /\ selectedToken = None
  /\ loading = TRUE
  /\ error = None
  /\ tokenStrings = None
  /\ manifest = None
  /\ neighborsLoading = FALSE
  /\ shardVersion = 0
  /\ depManifest = None
  /\ depTokenStrings = None
  /\ dirty = FALSE
  /\ searchIndex = << >>
  /\ caches = << EmptyMap >>
  /\ curCache = 1
  /\ prefixRef = None
  /\ loads = << >>
  /\ p1Live = 0
  /\ fetches = << >>
  /\ p2Live = 0
  /\ prefetchers = << >>
  /\ p3Live = 0
  /\ call = OgState("idle", NoRequest, 0, {}, "", None)

\* A GET /og request arrives.
OgRequest(req) ==
  /\ call.op = "idle"
  /\ call' = OgState("validate", req, 0, {}, "", call.result.cache)
  /\ OgFrame

\* Lines 295-318.
OgValidate ==
  /\ call.op = "validate"
  /\ LET req == call.arg
     IN  IF req.model \in {None, Some("")} \/ req.token = None
         THEN OgRespond(400)
         ELSE LET tokenId == parseInt(Get(req.token))
              IN  IF tokenId = None \/ Get(tokenId) < 0
                  THEN OgRespond(400)
                  ELSE IF OgPrefix(req) = None
                       THEN OgRespond(404)
                       ELSE OgGoto("cache")
  /\ OgFrame

\* Lines 321-324: the cache is keyed by the request URL.
OgCacheMatch ==
  /\ call.op = "cache"
  /\ IF call.result.cache = Some(call.arg)
     THEN OgRespond(200)
     ELSE OgGoto("load")
  /\ OgFrame

\* Lines 327-338: manifest and tokens arrive, then the range check.
OgLoadOk ==
  /\ call.op = "load"
  /\ LET prefix == Get(OgPrefix(call.arg))
         got == call.result.fetched \cup
                  { Asset(prefix, "manifest", 0), Asset(prefix, "tokens", 0) }
         tokenId == Get(parseInt(Get(call.arg.token)))
     IN  IF tokenId >= ManifestData(prefix).vocabSize
         THEN call' = [call EXCEPT !.op = "responded", !.result.status = 404,
                                   !.result.fetched = got]
         ELSE call' = [call EXCEPT !.op = "shard", !.result.fetched = got]
  /\ OgFrame

\* Lines 327-331: fetchAsset throws for the manifest or the tokens.
OgLoadFail ==
  /\ call.op = "load"
  /\ LET prefix == Get(OgPrefix(call.arg))
     IN  call' = [call EXCEPT !.op = "responded", !.result.status = 500,
                              !.result.threw = "load",
                              !.result.fetched =
                                 @ \cup { Asset(prefix, "manifest", 0),
                                          Asset(prefix, "tokens", 0) }]
  /\ OgFrame

\* The shard the handler fetches, lines 340-345.
OgShard(req) ==
  LET prefix == Get(OgPrefix(req))
      tokenId == Get(parseInt(Get(req.token)))
  IN  Asset(prefix, "knn", ShardIndexOf(tokenId, ManifestData(prefix).shardSize))

\* Lines 340-537: the shard arrives, the image is rendered and returned, and
\* the response is put into the cache.
OgShardOk ==
  /\ call.op = "shard"
  /\ call' = [call EXCEPT !.op = "responded", !.result.status = 200,
                          !.result.fetched = @ \cup { OgShard(call.arg) },
                          !.result.cache = Some(call.arg)]
  /\ OgFrame

\* Lines 340-345: fetchAsset throws for the shard.
OgShardFail ==
  /\ call.op = "shard"
  /\ call' = [call EXCEPT !.op = "responded", !.result.status = 500,
                          !.result.threw = "shard",
                          !.result.fetched = @ \cup { OgShard(call.arg) }]
  /\ OgFrame

\* The response has gone out; the function waits for the next request.
OgDone ==
  /\ call.op = "responded"
  /\ call' = OgState("idle", NoRequest, 0, {}, "", call.result.cache)
  /\ OgFrame

OgNext ==
  \/ \E req \in Requests : OgRequest(req)
  \/ OgValidate
  \/ OgCacheMatch
  \/ OgLoadOk
  \/ OgLoadFail
  \/ OgShardOk
  \/ OgShardFail
  \/ OgDone

OgSpec == OgInit /\ [][OgNext]_vars

\* The request lacks model or token, or its token is not a non-negative
\* integer written in decimal digits.
BadParams(req) ==
  \/ req.model \in {None, Some("")}
  \/ req.token = None
  \/ ~IsDigits(Get(req.token))

\* C39: the /og handler answers 400 without fetching any asset when model or
\* token is missing or the token is not a non-negative integer; it answers
\* 404 without fetching any asset when the parameters are good and the
\* (model, embedding) pair has no prefix; and when the token id is at least
\* the manifest's vocabSize it answers 404 without having fetched a shard.
C39_OgValidation ==
  call.op = "responded" =>
    LET req == call.arg
        r == call.result
    IN  /\ BadParams(req) => (r.status = 400 /\ r.fetched = {})
        /\ (~BadParams(req) /\ OgPrefix(req) = None)
             => (r.status = 404 /\ r.fetched = {})
        /\ (/\ ~BadParams(req)
            /\ OgPrefix(req) # None
            /\ r.threw = ""
            /\ Number(Get(req.token)) >= VocabOf(Get(OgPrefix(req))))
             => /\ r.status = 404
                /\ \A a \in r.fetched : a.kind # "knn"

====
